---- MODULE Spec2Model ----
(***************************************************************************)
(* The relay of onsong-service (service/server.js, kept here as            *)
(* src/unnamed/part_000): the connection registry, the tenant-facing       *)
(* HTTP handlers, the request/response correlator and the keep-alive, and  *)
(* the agent (proxy-template/server.js): the uplink with its watchdog and  *)
(* reconnects, the device registry and the auto-request states.            *)
(*                                                                         *)
(* JavaScript values are modelled as strings; Absent stands for            *)
(* undefined, JsTrue/JsFalse for the JSON booleans.  A Session object is   *)
(* identified by sid, its creation number: a replaced Session object       *)
(* stays referenced by the closures of the requests sent on it, so the     *)
(* entries of its requestHandlers table are kept with the calls (entry).   *)
(***************************************************************************)
EXTENDS Naturals, Integers, Sequences, FiniteSets, TLC

\* ---------------------------------------------------------------- bounds
NSock == 2      \* WebSocket connections accepted over the run
MaxReq == 2     \* calls of sendToProxy over the run
MaxSess == 3    \* Session objects created over the run
MainSess == 2   \* Session objects created where every kind of message is an input
MaxConn == 3    \* uplink sockets the agent creates over the run
MainConn == 2   \* uplink sockets created where every kind of message is an input
MaxNow == 1     \* ticks of the agent's clock
MaxTimers == 2  \* device removal timers the agent arms over the run
MaxAuto == 3    \* auto-request state objects the agent creates over the run
MaxAutoCalls == 2  \* requests the auto-request intervals start over the run
MaxDeviceCalls == 2  \* device calls the agent starts over the run
MaxGraceClock == 1400  \* seconds of the agent's clock where the grace period is timed
MaxAutoClock == 68  \* the clock reading the auto-request runs stop at
MaxFrameClock == 71 \* the clock reading of the runs with a silent uplink
MaxKeepClock == 95  \* seconds of the clock where the keep-alive is timed
MaxWatchClock == 100   \* seconds of the agent's clock where the watchdog is timed

\* ------------------------------------------------------------ JS values
Absent == "<undefined>"
Null == "<null>"
JsTrue == "<true>"
JsFalse == "<false>"

Truthy(v) == v \notin {Absent, Null, JsFalse, ""}

Or(v, d) == IF Truthy(v) THEN v ELSE d

\* ---------------------------------------------------------- input sets
Sock == 1..NSock

RegUrls == {Absent, "a.church.tools"}
RegUuids == {Absent, "u1", "u2"}
RegSecrets == {Absent, "s1", "s2"}
RegPublic == {JsTrue, JsFalse}

\* A Referer header as a sequence of tokens; <<>> is the missing header.
GoodReferrer == <<"https:", "//", "a.church.tools", "/songs">>
Referrers == { <<>>, <<"not a url">>, <<"file:", "//", "", "/x">>, GoodReferrer }
TenantSecrets == {Absent, "", "s1"}
TenantUuids == {Absent, "u1", "u2"}
TenantIps == {Absent, "10.0.0.5"}
Endpoints == {"discover", "api"}

\* ------------------------------------------------------------ messages
\* One record shape for every inbound socket message.
Msg(t, rid, ok, sc, d, url, sec, uu, loc, pub, ver) ==
  [type |-> t, requestId |-> rid, success |-> ok, statusCode |-> sc, data |-> d,
   churchToolsUrl |-> url, secret |-> sec, uuid |-> uu, location |-> loc,
   public |-> pub, proxyVersion |-> ver]

NoMsg == Msg(Absent, Absent, Absent, 0, Absent, Absent, Absent, Absent, Absent, Absent, Absent)

\* Variant: the id is made from half the counter, so two calls share it.
ReqId_Halved(n) == "req-" \o ToString((n + 1) \div 2)

\* The request id sendToProxy makes from the incremented counter.
ReqId(n) == "req-" \o ToString(n)

\* Own properties of {} are the stored ids; the names inherited from
\* Object.prototype are truthy too, and calling them changes nothing.
ProtoNames == {"toString"}

RespIds == {ReqId(n) : n \in 1..MaxReq} \cup ProtoNames \cup {Absent}

\* The agent registers with location unset and proxyVersion 2.0.0; a
\* message lacks at most one of the three required fields.
RegisterMsgs ==
  { Msg("register", Absent, Absent, 0, Absent, url, sec, uu, Absent, pub, "2.0.0") :
      url \in RegUrls, sec \in RegSecrets, uu \in RegUuids, pub \in RegPublic }

ValidRegister(m) == Truthy(m.churchToolsUrl) /\ Truthy(m.secret) /\ Truthy(m.uuid)

\* The register messages lacking exactly one required field
InvalidRegisterMsgs ==
  { m \in RegisterMsgs :
      /\ Cardinality({f \in {"url", "secret", "uuid"} :
            \/ f = "url" /\ m.churchToolsUrl = Absent
            \/ f = "secret" /\ m.secret = Absent
            \/ f = "uuid" /\ m.uuid = Absent}) = 1
      /\ m.public = JsFalse /\ m.secret \in {Absent, "s1"} /\ m.uuid \in {Absent, "u1"} }

\* SpecAuth: one agent instance, any secret, public or not.
AuthRegisterMsgs ==
  { m \in RegisterMsgs : ValidRegister(m) /\ m.uuid = "u1" } \cup InvalidRegisterMsgs

\* Spec: two agent instances with the same secret, not public.
MainRegisterMsgs ==
  { m \in RegisterMsgs : ValidRegister(m) /\ m.public = JsFalse /\ m.secret = "s1" }
    \cup { m \in InvalidRegisterMsgs : m.uuid = Absent }

\* success, statusCode (0: none) and data (or devices) of a response
ResponseMsgs ==
  { Msg("discover-response", rid, JsTrue, 0, "d1", Absent, Absent, Absent, Absent, Absent, Absent) :
      rid \in RespIds } \cup
  { Msg("discover-response", rid, JsFalse, 0, Absent, Absent, Absent, Absent, Absent, Absent, Absent) :
      rid \in RespIds } \cup
  { Msg("api-response", rid, JsTrue, 404, "d2", Absent, Absent, Absent, Absent, Absent, Absent) :
      rid \in RespIds }

OtherMsgs ==
  { Msg(t, Absent, Absent, 0, Absent, Absent, Absent, Absent, Absent, Absent, Absent) :
      t \in {"pong", "hello", "<not json>"} }

VARIABLES
  sockState,        \* per socket: "idle" (not yet accepted), "open", "closing", "closed"
  registeredKey,    \* per socket: the closure variable registeredKey
  created,          \* the number of Session objects created so far
  connections,      \* the registry: key -> Session
  requestIdCounter, \* the request id counter
  calls,            \* per sendToProxy call: its promise, timer and the tenant's reply
  out,              \* the messages the last handler transmitted: <<socket, type, requestId>>
  reply,            \* the HTTP reply the last handler gave at once (status 0: none)
  keepAliveDue,     \* when the keep-alive interval runs next
  \* the agent (proxy-template/server.js)
  ws,                  \* the uplink socket the variable ws refers to (0: null)
  readyState,          \* per uplink socket: "none" (not created), "connecting", "open",
                       \* "closing" (terminated, its 'close' event due), "closed"
  isConnected,
  reconnectTimer,      \* when the reconnect timeout of the close handler is due (NoTime: null)
  forcedTimers,        \* when the reconnect timeouts armed by the watchdog are due
  lastPingTime,        \* the clock reading of the last heartbeat (NoTime: null)
  watchdogTimer,       \* when the watchdog interval runs next (NoTime: null)
  now,                 \* the agent's clock, Date.now(), in seconds
  deviceRegistry,      \* the Map deviceId -> device, in insertion order
  deviceRemovalTimers, \* the Map deviceId -> timer id
  removalTimers,       \* the armed removal timeouts: [timer, deviceId, due]
  timersCreated,       \* the number of removal timeouts created so far
  autoRequestStates,   \* the Map stateKey -> state object
  autoTimers,          \* the armed timers of state objects, each with the object, its
                       \* kind ("interval" | "timeout"), the time it is due and the
                       \* variables of its closure
  autoCreated,         \* the number of state objects created so far
  autoCalls,           \* per request of an auto-request interval: its continuation
                       \* and the time it started
  deviceCalls,         \* per api-request that reached makeDeviceRequest: its continuation
  sent                 \* the messages the agent's last handler transmitted

relay == <<sockState, registeredKey, created, connections, requestIdCounter, calls, out, reply,
           keepAliveDue>>

agent == <<ws, readyState, isConnected, reconnectTimer, forcedTimers,
           lastPingTime, watchdogTimer, now,
           deviceRegistry, deviceRemovalTimers, removalTimers, timersCreated,
           autoRequestStates, autoTimers, autoCreated, autoCalls, deviceCalls, sent>>

vars == <<relay, agent>>

\* lastPingTime = null
NoTime == -1

\* The delay of the removal timeout, 1000 * 600 ms, in seconds.
GracePeriod == 600

\* PING_TIMEOUT_MS, the period of the watchdog interval, and the delays of
\* the reconnect after a watchdog breach and after a close, in seconds.
PING_TIMEOUT == 70

WatchdogPeriod == 10

ForcedReconnectDelay == 1

ReconnectDelay == 5

\* The period of the relay's keep-alive interval, in seconds.
KeepAlivePeriod == 30

\* The period of the auto-request intervals, the lifetime of a state object
\* and the timeout of a request of an interval, in seconds.
AUTO_REQUEST_INTERVAL == 2

AUTO_REQUEST_DURATION == 60

AutoRequestTimeout == 5

HttpReply(status, error) == [status |-> status, error |-> error]

NoReply == HttpReply(0, Absent)

EmptyMap == [k \in {} |-> 0]

\* Map.set and Map.delete of the registry
MapSet(map, k, v) == [x \in DOMAIN map \cup {k} |-> IF x = k THEN v ELSE map[x]]

MapDelete(map, k) == [x \in DOMAIN map \ {k} |-> map[x]]

\* ws.send: the data is transmitted only while the socket is OPEN; on a
\* closing or closed socket ws (8.x, no callback given) discards it.
WsSend(s, type, requestId) ==
  IF sockState[s] = "open" THEN {<<s, type, requestId>>} ELSE {}

\* Variant: a Session already stored under the key keeps its secret.
Session_KeepSecret(m, s, sid) ==
  [churchToolsUrl |-> m.churchToolsUrl,
   secret |-> IF /\ Truthy(m.churchToolsUrl) /\ Truthy(m.uuid)
                 /\ (m.churchToolsUrl \o ":" \o m.uuid) \in DOMAIN connections
              THEN connections[m.churchToolsUrl \o ":" \o m.uuid].secret
              ELSE m.secret,
   uuid |-> m.uuid,
   location |-> Or(m.location, ""), public |-> Or(m.public, JsFalse), ws |-> s,
   proxyVersion |-> Or(m.proxyVersion, "unknown"), sid |-> sid]

\* The Session object built by the register branch; its requestHandlers
\* table starts empty (see RequestHandlers).
Session(m, s, sid) ==
  [churchToolsUrl |-> m.churchToolsUrl, secret |-> m.secret, uuid |-> m.uuid,
   location |-> Or(m.location, ""), public |-> Or(m.public, JsFalse), ws |-> s,
   proxyVersion |-> Or(m.proxyVersion, "unknown"), sid |-> sid]

\* The keys of conn.requestHandlers of the Session object sid.
RequestHandlers(sid) ==
  { calls[n].id : n \in {i \in 1..Len(calls) : calls[i].conn = sid /\ calls[i].entry} }

connectionKey(churchToolsUrl, uuid) == churchToolsUrl \o ":" \o uuid

\* getChurchToolsUrl: new URL(referrer).hostname, null when the header is
\* missing or is not an absolute URL.  A URL is a scheme token, then "//"
\* and the host token (possibly empty), then the path.
getChurchToolsUrl(referrer) ==
  IF referrer = <<>> THEN Null
  ELSE IF ~(Len(referrer) >= 2 /\ referrer[1] \in {"https:", "http:", "file:"}) THEN Null
  ELSE IF Len(referrer) >= 3 /\ referrer[2] = "//" THEN referrer[3]
  ELSE ""

\* findAndAuthenticateConnection: conn is the Session found, NoConn with an error.
NoConn == Session(NoMsg, 0, 0)

\* Variant: the secret is compared for public Sessions too.
findAndAuthenticateConnection_SecretAlways(churchToolsUrl, secret, uuid) ==
  IF ~Truthy(uuid) THEN [error |-> "Missing UUID", status |-> 401, conn |-> NoConn]
  ELSE IF connectionKey(churchToolsUrl, uuid) \notin DOMAIN connections
       THEN [error |-> "No proxy connected", status |-> 403, conn |-> NoConn]
  ELSE IF connections[connectionKey(churchToolsUrl, uuid)].secret # secret
       THEN [error |-> "Invalid secret", status |-> 403, conn |-> NoConn]
  ELSE [error |-> Absent, status |-> 0,
        conn |-> connections[connectionKey(churchToolsUrl, uuid)]]

findAndAuthenticateConnection(churchToolsUrl, secret, uuid) ==
  IF ~Truthy(uuid) THEN [error |-> "Missing UUID", status |-> 401, conn |-> NoConn]
  ELSE IF connectionKey(churchToolsUrl, uuid) \notin DOMAIN connections
       THEN [error |-> "No proxy connected", status |-> 403, conn |-> NoConn]
  ELSE IF /\ ~Truthy(connections[connectionKey(churchToolsUrl, uuid)].public)
          /\ connections[connectionKey(churchToolsUrl, uuid)].secret # secret
       THEN [error |-> "Invalid secret", status |-> 403, conn |-> NoConn]
  ELSE [error |-> Absent, status |-> 0,
        conn |-> connections[connectionKey(churchToolsUrl, uuid)]]

\* One sendToProxy call: conn and ws are the Session object captured by the
\* closures and its socket, entry tells whether conn.requestHandlers still
\* holds the handler, timer whether the timeout is armed; then the promise,
\* how often resolve and reject were called, and the reply the awaiting
\* HTTP handler gave the tenant.
Call(ep, conn, id) ==
  [ep |-> ep, conn |-> conn.sid, ws |-> conn.ws, id |-> id, entry |-> TRUE, timer |-> TRUE,
   state |-> "pending", value |-> NoMsg, nResolve |-> 0, nReject |-> 0,
   status |-> 0, body |-> Absent]

\* The agent after start(): device monitoring runs, connect() has created
\* the first uplink socket.
AgentInit ==
  /\ ws = 1
  /\ readyState = [c \in 1..MaxConn |-> IF c = 1 THEN "connecting" ELSE "none"]
  /\ isConnected = FALSE
  /\ reconnectTimer = NoTime
  /\ forcedTimers = {}
  /\ lastPingTime = NoTime
  /\ watchdogTimer = NoTime
  /\ now = 0
  /\ deviceRegistry = <<>>
  /\ deviceRemovalTimers = EmptyMap
  /\ removalTimers = {}
  /\ timersCreated = 0
  /\ autoRequestStates = EmptyMap
  /\ autoTimers = {}
  /\ autoCreated = 0
  /\ autoCalls = <<>>
  /\ deviceCalls = <<>>
  /\ sent = {}

\* The relay after module load: no socket, an empty registry, counter 0.
RelayInit ==
  /\ sockState = [s \in Sock |-> "idle"]
  /\ registeredKey = [s \in Sock |-> Null]
  /\ created = 0
  /\ connections = EmptyMap
  /\ requestIdCounter = 0
  /\ calls = <<>>
  /\ out = {}
  /\ reply = NoReply
  /\ keepAliveDue = KeepAlivePeriod

Init ==
  /\ RelayInit
  /\ AgentInit

\* wss.on('connection'): sockets are accepted in index order.
Connection(s) ==
  /\ sockState[s] = "idle"
  /\ \A t \in Sock : t < s => sockState[t] # "idle"
  /\ sockState' = [sockState EXCEPT ![s] = "open"]
  /\ registeredKey' = [registeredKey EXCEPT ![s] = Null]
  /\ reply' = NoReply
  /\ out' = {}
  /\ UNCHANGED <<agent, keepAliveDue, created, connections, requestIdCounter, calls>>

\* Variant: /discover answers an agent failure as /api/* does.
Reply_DiscoverAsApi(ep, response) ==
  IF Truthy(response.success)
  THEN [status |-> IF ep = "api" /\ response.statusCode # 0 THEN response.statusCode ELSE 200,
        body |-> response.data]
  ELSE [status |-> 502, body |-> "Bad Gateway"]

\* The tenant's reply once the awaited sendToProxy promise is fulfilled
\* (the code after await in GET /discover and ALL /api/*).
Reply(ep, response) ==
  IF ep = "discover"
  THEN IF Truthy(response.success)
       THEN [status |-> 200, body |-> response.data]
       ELSE [status |-> 500, body |-> "Discovery failed"]
  ELSE IF Truthy(response.success)
       THEN [status |-> IF response.statusCode # 0 THEN response.statusCode ELSE 200,
             body |-> response.data]
       ELSE [status |-> 502, body |-> "Bad Gateway"]

\* resolve(response) on the promise of a call: a settled promise stays as it is.
Resolve(call, response) ==
  IF call.state = "pending"
  THEN [call EXCEPT !.nResolve = @ + 1, !.state = "fulfilled", !.value = response,
                    !.status = Reply(call.ep, response).status,
                    !.body = Reply(call.ep, response).body]
  ELSE [call EXCEPT !.nResolve = @ + 1]

\* reject(new Error('Request timeout')); the awaiting HTTP handler answers 504.
Reject(call) ==
  IF call.state = "pending"
  THEN [call EXCEPT !.nReject = @ + 1, !.state = "rejected",
                    !.status = 504, !.body = "Request timeout"]
  ELSE [call EXCEPT !.nReject = @ + 1]

\* Variant: the handler forgets clearTimeout.
Handler_NoClear(n, response) ==
  [calls EXCEPT ![n] = Resolve([@ EXCEPT !.entry = FALSE], response)]

\* The closure stored in conn.requestHandlers[requestId] by call n, applied
\* to a response: clearTimeout, delete the entry, resolve the promise.
Handler(n, response) ==
  [calls EXCEPT ![n] = Resolve([@ EXCEPT !.timer = FALSE, !.entry = FALSE], response)]

\* Variant: the timeout callback rejects but leaves the entry in the table.
TimeoutCallback_KeepEntry(n) ==
  [calls EXCEPT ![n] = Reject([@ EXCEPT !.timer = FALSE])]

\* The setTimeout callback of call n: delete the entry, reject the promise.
TimeoutCallback(n) ==
  [calls EXCEPT ![n] = Reject([@ EXCEPT !.timer = FALSE, !.entry = FALSE])]

Timeout(n) ==
  /\ n \in 1..Len(calls)
  /\ calls[n].timer
  /\ calls' = TimeoutCallback(n)
  /\ reply' = NoReply
  /\ out' = {}
  /\ UNCHANGED <<agent, keepAliveDue, sockState, registeredKey, created, connections, requestIdCounter>>

\* sendToProxy(conn, type, data): a new id, the timer armed, the handler
\* stored on the Session object, the message written to the Session's socket.
sendToProxy(conn, ep) ==
  /\ requestIdCounter' = requestIdCounter + 1
  /\ calls' = Append(calls, Call(ep, conn, ReqId(requestIdCounter + 1)))
  /\ out' = WsSend(conn.ws, IF ep = "discover" THEN "discover" ELSE "api-request",
                   ReqId(requestIdCounter + 1))

\* Variant: the referrer is checked before the X-ID header.
LocalCheck_ReferrerFirst(ep, referrer, secret, uuid, targetIp) ==
  IF ~Truthy(getChurchToolsUrl(referrer))
  THEN [error |-> "Invalid or missing referrer", status |-> 400, conn |-> NoConn]
  ELSE IF ~Truthy(uuid) THEN [error |-> "Missing X-ID header", status |-> 401, conn |-> NoConn]
  ELSE IF ep = "api" /\ ~Truthy(targetIp)
       THEN [error |-> "Missing ONSONGIP header", status |-> 400, conn |-> NoConn]
  ELSE findAndAuthenticateConnection(getChurchToolsUrl(referrer), secret, uuid)

\* The synchronous part of GET /discover and ALL /api/*: the header checks
\* in source order, ending with findAndAuthenticateConnection.
LocalCheck(ep, referrer, secret, uuid, targetIp) ==
  IF ~Truthy(uuid) THEN [error |-> "Missing X-ID header", status |-> 401, conn |-> NoConn]
  ELSE IF ep = "api" /\ ~Truthy(targetIp)
       THEN [error |-> "Missing ONSONGIP header", status |-> 400, conn |-> NoConn]
  ELSE IF ~Truthy(getChurchToolsUrl(referrer))
       THEN [error |-> "Invalid or missing referrer", status |-> 400, conn |-> NoConn]
  ELSE findAndAuthenticateConnection(getChurchToolsUrl(referrer), secret, uuid)

\* Variant: the request id is drawn before the header checks.
TenantCall_IdFirst(ep, referrer, secret, uuid, targetIp) ==
  /\ requestIdCounter < MaxReq
  /\ IF LocalCheck(ep, referrer, secret, uuid, targetIp).status # 0
     THEN /\ reply' = HttpReply(LocalCheck(ep, referrer, secret, uuid, targetIp).status,
                                LocalCheck(ep, referrer, secret, uuid, targetIp).error)
          /\ out' = {}
          /\ requestIdCounter' = requestIdCounter + 1
          /\ UNCHANGED <<agent, keepAliveDue, sockState, registeredKey, created, connections, calls>>
     ELSE /\ sendToProxy(LocalCheck(ep, referrer, secret, uuid, targetIp).conn, ep)
          /\ reply' = NoReply
          /\ UNCHANGED <<agent, keepAliveDue, sockState, registeredKey, created, connections>>

\* GET /discover and ALL /api/* up to the await
TenantCall(ep, referrer, secret, uuid, targetIp) ==
  IF LocalCheck(ep, referrer, secret, uuid, targetIp).status # 0
  THEN /\ reply' = HttpReply(LocalCheck(ep, referrer, secret, uuid, targetIp).status,
                          LocalCheck(ep, referrer, secret, uuid, targetIp).error)
       /\ out' = {}
       /\ UNCHANGED <<agent, keepAliveDue, sockState, registeredKey, created, connections, requestIdCounter, calls>>
  ELSE /\ requestIdCounter < MaxReq
       /\ sendToProxy(LocalCheck(ep, referrer, secret, uuid, targetIp).conn, ep)
       /\ reply' = NoReply
       /\ UNCHANGED <<agent, keepAliveDue, sockState, registeredKey, created, connections>>

\* Variant: the presence check uses the data-path rule (no secret for public Sessions).
proxycheck_DataPathRule(referrer, secret, uuid) ==
  IF ~Truthy(uuid) THEN [status |-> 401, error |-> "Missing X-ID header"]
  ELSE IF ~Truthy(secret) THEN [status |-> 401, error |-> "Missing X-AUTH header"]
  ELSE IF ~Truthy(getChurchToolsUrl(referrer))
       THEN [status |-> 400, error |-> "Invalid or missing referrer"]
  ELSE IF findAndAuthenticateConnection(getChurchToolsUrl(referrer), secret, uuid).status # 0
       THEN [status |-> 200, error |-> "registered: false"]
  ELSE [status |-> 200, error |-> "registered: true"]

\* GET /proxycheck: the reply, status 200 carrying registered true or false.
proxycheck(referrer, secret, uuid) ==
  IF ~Truthy(uuid) THEN [status |-> 401, error |-> "Missing X-ID header"]
  ELSE IF ~Truthy(secret) THEN [status |-> 401, error |-> "Missing X-AUTH header"]
  ELSE IF ~Truthy(getChurchToolsUrl(referrer))
       THEN [status |-> 400, error |-> "Invalid or missing referrer"]
  ELSE IF \/ connectionKey(getChurchToolsUrl(referrer), uuid) \notin DOMAIN connections
          \/ connections[connectionKey(getChurchToolsUrl(referrer), uuid)].secret # secret
       THEN [status |-> 200, error |-> "registered: false"]
  ELSE [status |-> 200, error |-> "registered: true"]

\* GET /health: the connections field of the body is connections.size.
health == Cardinality(DOMAIN connections)

Health ==
  /\ reply' = HttpReply(200, "connections: " \o ToString(health))
  /\ out' = {}
  /\ UNCHANGED <<agent, keepAliveDue, sockState, registeredKey, created, connections, requestIdCounter, calls>>

ProxyCheck(referrer, secret, uuid) ==
  /\ reply' = proxycheck(referrer, secret, uuid)
  /\ out' = {}
  /\ UNCHANGED <<agent, keepAliveDue, sockState, registeredKey, created, connections, requestIdCounter, calls>>

\* Variant: responses are matched to the oldest pending entry, not by id.
HandlerOf_Fifo(conn, id) ==
  IF id \in RequestHandlers(conn.sid)
  THEN CHOOSE n \in 1..Len(calls) :
         /\ calls[n].conn = conn.sid /\ calls[n].entry
         /\ \A j \in 1..Len(calls) : calls[j].conn = conn.sid /\ calls[j].entry => n <= j
  ELSE 0

\* Variant: the table of a Session also holds the entries of earlier Sessions.
HandlerOf_Inherited(conn, id) ==
  IF \E n \in 1..Len(calls) : calls[n].id = id /\ calls[n].entry /\ calls[n].conn <= conn.sid
  THEN CHOOSE n \in 1..Len(calls) :
         calls[n].id = id /\ calls[n].entry /\ calls[n].conn <= conn.sid
  ELSE 0

\* The call whose closure conn.requestHandlers[id] holds (0: none).
HandlerOf(conn, id) ==
  IF id \in RequestHandlers(conn.sid)
  THEN CHOOSE n \in 1..Len(calls) : calls[n].id = id /\ calls[n].conn = conn.sid /\ calls[n].entry
  ELSE 0

\* Variant: the registry is rebuilt with the new Session only.
SetConnection_Fresh(key, conn) == MapSet(EmptyMap, key, conn)

\* connections.set(registeredKey, {...}) of the register branch
SetConnection(key, conn) == MapSet(connections, key, conn)

\* Variant: the register branch does not require the secret.
OnRegister_SecretOptional(s, m) ==
  IF ~Truthy(m.churchToolsUrl) \/ ~Truthy(m.uuid)
  THEN /\ out' = WsSend(s, "error", Absent)
       /\ sockState' = [sockState EXCEPT ![s] = "closing"]
       /\ reply' = NoReply
       /\ UNCHANGED <<agent, keepAliveDue, registeredKey, created, connections, requestIdCounter, calls>>
  ELSE /\ created < MaxSess
       /\ registeredKey' = [registeredKey EXCEPT ![s] = connectionKey(m.churchToolsUrl, m.uuid)]
       /\ created' = created + 1
       /\ connections' = SetConnection(connectionKey(m.churchToolsUrl, m.uuid),
                                       Session(m, s, created + 1))
       /\ out' = WsSend(s, "registered", Absent)
       /\ reply' = NoReply
       /\ UNCHANGED <<agent, keepAliveDue, sockState, requestIdCounter, calls>>

\* ws.on('message'), register branch
OnRegister(s, m) ==
  IF ~Truthy(m.churchToolsUrl) \/ ~Truthy(m.secret) \/ ~Truthy(m.uuid)
  THEN /\ out' = WsSend(s, "error", Absent)
       /\ sockState' = [sockState EXCEPT ![s] = "closing"]
       /\ reply' = NoReply
       /\ UNCHANGED <<agent, keepAliveDue, registeredKey, created, connections, requestIdCounter, calls>>
  ELSE /\ created < MaxSess
       /\ registeredKey' = [registeredKey EXCEPT ![s] = connectionKey(m.churchToolsUrl, m.uuid)]
       /\ created' = created + 1
       /\ connections' = SetConnection(connectionKey(m.churchToolsUrl, m.uuid),
                                       Session(m, s, created + 1))
       /\ out' = WsSend(s, "registered", Absent)
       /\ reply' = NoReply
       /\ UNCHANGED <<agent, keepAliveDue, sockState, requestIdCounter, calls>>

\* ws.on('message'), discover-response / api-response branch
OnResponse(s, m) ==
  IF /\ Truthy(registeredKey[s])
     /\ registeredKey[s] \in DOMAIN connections
     /\ HandlerOf(connections[registeredKey[s]], m.requestId) # 0
  THEN /\ calls' = Handler(HandlerOf(connections[registeredKey[s]], m.requestId), m)
       /\ reply' = NoReply
       /\ out' = {}
       /\ UNCHANGED <<agent, keepAliveDue, sockState, registeredKey, created, connections, requestIdCounter>>
  ELSE /\ reply' = NoReply
       /\ out' = {}
       /\ UNCHANGED <<agent, keepAliveDue, sockState, registeredKey, created, connections, requestIdCounter, calls>>

\* ws.on('message'), the pong branch, an unknown type, and data that
\* JSON.parse rejects (caught and logged)
OnOther(s, m) ==
  /\ reply' = NoReply
  /\ out' = {}
  /\ UNCHANGED <<agent, keepAliveDue, sockState, registeredKey, created, connections, requestIdCounter, calls>>

\* ws.on('message'): a socket still delivers messages after ws.close()
\* until the peer's close frame arrives.
OnMessage(s, m) ==
  /\ sockState[s] \in {"open", "closing"}
  /\ IF m.type = "register" THEN OnRegister(s, m)
     ELSE IF m.type \in {"discover-response", "api-response"} THEN OnResponse(s, m)
     ELSE OnOther(s, m)

\* ws.on('close')
OnClose(s) ==
  /\ sockState[s] \in {"open", "closing"}
  /\ sockState' = [sockState EXCEPT ![s] = "closed"]
  /\ connections' = IF Truthy(registeredKey[s])
                    THEN MapDelete(connections, registeredKey[s])
                    ELSE connections
  /\ reply' = NoReply
  /\ out' = {}
  /\ UNCHANGED <<agent, keepAliveDue, registeredKey, created, requestIdCounter, calls>>

\* Variant: a keep-alive that pings every open socket.
KeepAlive_EveryOpenSocket ==
  /\ out' = UNION { WsSend(s, "ping", Absent) : s \in Sock }
  /\ keepAliveDue' = keepAliveDue + KeepAlivePeriod
  /\ reply' = NoReply
  /\ UNCHANGED <<agent, sockState, registeredKey, created, connections, requestIdCounter, calls>>

\* The keep-alive interval: a ping to every registered Session whose socket is OPEN.
KeepAlive ==
  /\ out' = UNION { WsSend(connections[k].ws, "ping", Absent) : k \in DOMAIN connections }
  /\ keepAliveDue' = keepAliveDue + KeepAlivePeriod
  /\ reply' = NoReply
  /\ UNCHANGED <<agent, sockState, registeredKey, created, connections, requestIdCounter, calls>>

\* Where every kind of message is an input, at most MainSess registrations
\* are accepted over the run.
WithinMain(m) == (m.type = "register" /\ ValidRegister(m)) => created < MainSess

\* The relay's socket lifecycle and correlator, with well-formed tenant calls.
Next ==
  \/ \E s \in Sock : Connection(s)
  \/ \E s \in Sock, m \in MainRegisterMsgs \cup ResponseMsgs \cup OtherMsgs :
       WithinMain(m) /\ OnMessage(s, m)
  \/ \E s \in Sock : OnClose(s)
  \/ \E ep \in Endpoints, uuid \in TenantUuids \ {Absent} :
       TenantCall(ep, GoodReferrer, "s1", uuid, "10.0.0.5")
  \/ \E n \in 1..MaxReq : Timeout(n)

Spec == Init /\ [][Next]_vars

\* Timers fire: every armed setTimeout callback eventually runs.
FairSpec == Spec /\ \A n \in 1..MaxReq : WF_vars(Timeout(n))

\* The registry and the tenant-facing handlers under every combination of
\* headers, against the registries that registrations and closes produce.
NextAuth ==
  \/ \E s \in Sock : Connection(s)
  \/ \E s \in Sock, m \in AuthRegisterMsgs : WithinMain(m) /\ OnMessage(s, m)
  \/ \E s \in Sock : OnClose(s)
  \/ \E ep \in Endpoints, referrer \in Referrers, secret \in TenantSecrets,
        uuid \in TenantUuids, targetIp \in TenantIps :
       TenantCall(ep, referrer, secret, uuid, targetIp)
  \/ \E referrer \in Referrers, secret \in TenantSecrets, uuid \in TenantUuids :
       ProxyCheck(referrer, secret, uuid)

SpecAuth == Init /\ [][NextAuth]_vars

\* Registrations and re-registrations of two sockets under two keys, with
\* discover calls, their responses and their timeouts.  The tenant calls
\* here arrive while the socket of the called Session is open, so every
\* request is transmitted.
ReuseRegisterMsgs ==
  { m \in MainRegisterMsgs : ValidRegister(m) }

ReuseResponseMsgs ==
  { m \in ResponseMsgs : m.type = "discover-response" /\ Truthy(m.success)
                         /\ m.requestId \in {ReqId(n) : n \in 1..MaxReq} }

AgentConnected(uuid) ==
  connectionKey("a.church.tools", uuid) \in DOMAIN connections
    => sockState[connections[connectionKey("a.church.tools", uuid)].ws] = "open"

NextReuse ==
  \/ \E s \in Sock : Connection(s)
  \/ \E s \in Sock, m \in ReuseRegisterMsgs \cup ReuseResponseMsgs : OnMessage(s, m)
  \/ \E s \in Sock : OnClose(s)
  \/ \E uuid \in TenantUuids \ {Absent} :
       AgentConnected(uuid) /\ TenantCall("discover", GoodReferrer, "s1", uuid, "10.0.0.5")
  \/ Health
  \/ \E n \in 1..MaxReq : Timeout(n)

SpecReuse == Init /\ [][NextReuse]_vars

FairSpecReuse == SpecReuse /\ \A n \in 1..MaxReq : WF_vars(Timeout(n))

TypeOK ==
  /\ sockState \in [Sock -> {"idle", "open", "closing", "closed"}]
  /\ requestIdCounter \in 0..MaxReq
  /\ Len(calls) = requestIdCounter
  /\ created <= MaxSess
  /\ \A k \in DOMAIN connections : connections[k].sid \in 1..created
  /\ reply.status \in {0, 200, 400, 401, 403}
  /\ keepAliveDue \in Nat /\ keepAliveDue % KeepAlivePeriod = 0
  /\ out \subseteq Sock \X {"error", "registered", "discover", "api-request", "ping"}
                  \X ({ReqId(n) : n \in 1..MaxReq} \cup {Absent})

\* ----------------------------------------------------------------- agent
\* The variables of proxy-template/server.js by concern.
uplink == <<ws, readyState, isConnected, reconnectTimer, forcedTimers>>

watchdog == <<lastPingTime, watchdogTimer>>

devices == <<deviceRegistry, deviceRemovalTimers, removalTimers, timersCreated>>

auto == <<autoRequestStates, autoTimers, autoCreated, autoCalls>>

\* An address is the sequence of its groups between ':' characters, so an
\* address includes ':' exactly when it has more than one group.
Ipv4Address == <<"10.0.0.5">>

Ipv6Address == <<"fe80", "", "1">>

AddressLists == { <<>>, <<Ipv4Address>>, <<Ipv6Address>> }

\* A Bonjour service as the browser reports it; a missing txt is a txt whose
\* fields are all undefined (service.txt || {}).
Service(name, addresses, role, deviceid) ==
  [name |-> name, addresses |-> addresses, txt |-> [role |-> role, deviceid |-> deviceid]]

Services ==
  { Service("OnSong", a, r, d) :
      a \in AddressLists, r \in {"server", "printer"}, d \in {"d1", "d2", Absent} }

\* The one device of the runs that are about the uplink and the messages.
MainServices == { Service("OnSong", <<Ipv4Address>>, "server", "d1") }

\* The device object built from a service (type, host and port are copied
\* like name and are left out).
Device(service) ==
  [name |-> service.name, addresses |-> service.addresses, txt |-> service.txt]

getDeviceId(service) ==
  IF ~Truthy(service.txt.deviceid) THEN "unknown-device" ELSE service.txt.deviceid

\* Map operations on the insertion-ordered deviceRegistry.
RegHas(reg, id) == \E i \in 1..Len(reg) : reg[i].id = id

RegGet(reg, id) == reg[CHOOSE i \in 1..Len(reg) : reg[i].id = id].device

\* Variant: the registry is a list to which every stored record is appended.
RegSet_AlwaysAppend(reg, id, device) == Append(reg, [id |-> id, device |-> device])

RegSet(reg, id, device) ==
  IF RegHas(reg, id)
  THEN [i \in 1..Len(reg) |-> IF reg[i].id = id THEN [id |-> id, device |-> device] ELSE reg[i]]
  ELSE Append(reg, [id |-> id, device |-> device])

RECURSIVE RegDelete(_, _)
RegDelete(reg, id) ==
  IF reg = <<>> THEN <<>>
  ELSE IF Head(reg).id = id THEN RegDelete(Tail(reg), id)
  ELSE <<Head(reg)>> \o RegDelete(Tail(reg), id)

\* device.addresses.find(addr => !addr.includes(':')) is defined
HasIpv4(addresses) == \E i \in 1..Len(addresses) : Len(addresses[i]) = 1

\* Array.from(deviceRegistry.values())
getDiscoveredDevices == [i \in 1..Len(deviceRegistry) |-> deviceRegistry[i].device]

\* clearTimeout(deviceRemovalTimers.get(deviceId))
ClearRemovalTimer(deviceId) ==
  { t \in removalTimers : t.timer # deviceRemovalTimers[deviceId] }

\* Variant: an 'up' that stores the incoming record whatever its addresses.
Up_AlwaysStores(service) ==
  /\ IF \/ service.txt.role \notin {"server", "client"}
        \/ ~Truthy(service.txt.deviceid)
     THEN UNCHANGED devices
     ELSE /\ removalTimers' = IF getDeviceId(service) \in DOMAIN deviceRemovalTimers
                              THEN ClearRemovalTimer(getDeviceId(service))
                              ELSE removalTimers
          /\ deviceRemovalTimers' = MapDelete(deviceRemovalTimers, getDeviceId(service))
          /\ deviceRegistry' = RegSet(deviceRegistry, getDeviceId(service), Device(service))
          /\ UNCHANGED timersCreated
  /\ sent' = {}
  /\ UNCHANGED <<relay, uplink, watchdog, now, auto, deviceCalls>>

\* browser.on('up')
Up(service) ==
  /\ IF \/ service.txt.role \notin {"server", "client"}
        \/ ~Truthy(service.txt.deviceid)
     THEN UNCHANGED devices
     ELSE /\ removalTimers' = IF getDeviceId(service) \in DOMAIN deviceRemovalTimers
                              THEN ClearRemovalTimer(getDeviceId(service))
                              ELSE removalTimers
          /\ deviceRemovalTimers' = MapDelete(deviceRemovalTimers, getDeviceId(service))
          /\ deviceRegistry' =
               IF \/ ~RegHas(deviceRegistry, getDeviceId(service))
                  \/ HasIpv4(service.addresses)
               THEN RegSet(deviceRegistry, getDeviceId(service), Device(service))
               ELSE deviceRegistry
          /\ UNCHANGED timersCreated
  /\ sent' = {}
  /\ UNCHANGED <<relay, uplink, watchdog, now, auto, deviceCalls>>

\* browser.on('down'): a removal timeout is armed and stored; a timeout
\* stored before for the device is overwritten, not cleared.
Down(service) ==
  /\ IF ~RegHas(deviceRegistry, getDeviceId(service))
     THEN UNCHANGED devices
     ELSE /\ timersCreated < MaxTimers
          /\ timersCreated' = timersCreated + 1
          /\ removalTimers' = removalTimers \cup
               {[timer |-> timersCreated + 1, deviceId |-> getDeviceId(service),
                 due |-> now + GracePeriod]}
          /\ deviceRemovalTimers' =
               MapSet(deviceRemovalTimers, getDeviceId(service), timersCreated + 1)
          /\ UNCHANGED deviceRegistry
  /\ sent' = {}
  /\ UNCHANGED <<relay, uplink, watchdog, now, auto, deviceCalls>>

\* The removal timeout t fires (GracePeriod after its 'down', where the
\* clock is advanced by Advance; at any time where it is not).
RemovalTimeout(t) ==
  /\ t \in removalTimers
  /\ removalTimers' = removalTimers \ {t}
  /\ IF RegHas(deviceRegistry, t.deviceId)
     THEN /\ deviceRegistry' = RegDelete(deviceRegistry, t.deviceId)
          /\ deviceRemovalTimers' = MapDelete(deviceRemovalTimers, t.deviceId)
     ELSE UNCHANGED <<deviceRegistry, deviceRemovalTimers>>
  /\ sent' = {}
  /\ UNCHANGED <<relay, uplink, watchdog, now, auto, deviceCalls, timersCreated>>

\* A message the agent transmits: the socket, then the JSON fields.
AgentMsg(sock, type, requestId, success, statusCode, devicesOf, error) ==
  [sock |-> sock, type |-> type, requestId |-> requestId, success |-> success,
   statusCode |-> statusCode, devices |-> devicesOf, error |-> error]

\* ws.send(...) on the socket the variable ws refers to throws when ws is
\* null (TypeError) or the socket is still CONNECTING.
SendThrows == ws = 0 \/ readyState[ws] = "connecting"

\* What ws.send transmits: the message on an OPEN socket, nothing on a
\* closed one.
Send(type, requestId, success, statusCode, devicesOf, error) ==
  IF ws # 0 /\ readyState[ws] = "open"
  THEN {AgentMsg(ws, type, requestId, success, statusCode, devicesOf, error)}
  ELSE {}

\* A path is the sequence of its segments between '/' characters; the
\* empty sequence stands for a missing path, an empty address for a missing
\* targetIp.
NoPath == <<>>

NoAddress == <<>>

AuthPath == <<"api", "t1", "auth">>

SongsPath == <<"api", "t1", "songs">>

\* An inbound message of the uplink.
Inbound(type, requestId, targetIp, path) ==
  [type |-> type, requestId |-> requestId, targetIp |-> targetIp, path |-> path]

InboundDiscover == { Inbound("discover", r, NoAddress, NoPath) : r \in {"req-1", Absent} }

InboundApi ==
  { Inbound("api-request", "req-2", a, pa) :
      a \in {NoAddress, Ipv4Address}, pa \in {AuthPath, SongsPath, NoPath} }

InboundPing == { Inbound("ping", Absent, NoAddress, NoPath) }

InboundOther ==
  { Inbound(t, Absent, NoAddress, NoPath) : t \in {"registered", "hello", "<not json>"} }

\* The outcomes of makeDeviceRequest: a transport error, or the status of
\* the device's answer (any status is a success).
DeviceResults ==
  { [success |-> JsFalse, statusCode |-> 0] } \cup
  { [success |-> JsTrue, statusCode |-> c] : c \in {200, 204, 401} }

\* Variant: every path /api/<token>/<action> counts as an auth path.
AuthToken_AnyAction(path) ==
  IF Len(path) = 3 /\ path[1] = "api" /\ path[2] # ""
  THEN path[2] ELSE Absent

\* path.match(/^\/api\/([^\/]+)\/auth$/): the token, Absent without a match.
AuthToken(path) ==
  IF Len(path) = 3 /\ path[1] = "api" /\ path[3] = "auth" /\ path[2] # ""
  THEN path[2] ELSE Absent

\* Variant: the id of the last registry entry listing targetIp.
DeviceIdOf_Last(targetIp) ==
  IF \E i \in 1..Len(deviceRegistry) :
       \E j \in 1..Len(deviceRegistry[i].device.addresses) :
         deviceRegistry[i].device.addresses[j] = targetIp
  THEN deviceRegistry[CHOOSE i \in 1..Len(deviceRegistry) :
         /\ \E j \in 1..Len(deviceRegistry[i].device.addresses) :
              deviceRegistry[i].device.addresses[j] = targetIp
         /\ \A k \in (i + 1)..Len(deviceRegistry) :
              \A j \in 1..Len(deviceRegistry[k].device.addresses) :
                deviceRegistry[k].device.addresses[j] # targetIp].id
  ELSE Null

\* The id of the first registry entry whose addresses include targetIp
\* (Null: none).
DeviceIdOf(targetIp) ==
  IF \E i \in 1..Len(deviceRegistry) :
       \E j \in 1..Len(deviceRegistry[i].device.addresses) :
         deviceRegistry[i].device.addresses[j] = targetIp
  THEN deviceRegistry[CHOOSE i \in 1..Len(deviceRegistry) :
         /\ \E j \in 1..Len(deviceRegistry[i].device.addresses) :
              deviceRegistry[i].device.addresses[j] = targetIp
         /\ \A k \in 1..(i - 1) :
              \A j \in 1..Len(deviceRegistry[k].device.addresses) :
                deviceRegistry[k].device.addresses[j] # targetIp].id
  ELSE Null

getAutoRequestStateKey(deviceId, authToken) == deviceId \o ":" \o authToken

\* The delay of the timers of a state object: the interval repeats every
\* AUTO_REQUEST_INTERVAL, the timeout fires after AUTO_REQUEST_DURATION.
AutoDelay(k) == IF k = "interval" THEN AUTO_REQUEST_INTERVAL ELSE AUTO_REQUEST_DURATION

\* Variant: a cleanup that clears no timer.
CleanedTimers_None(stateKey) == autoTimers

\* cleanupAutoRequests(stateKey): the timers of the state object stored
\* under the key are cleared and the entry deleted.
CleanedTimers(stateKey) ==
  IF stateKey \in DOMAIN autoRequestStates
  THEN { t \in autoTimers : t.obj # autoRequestStates[stateKey].obj }
  ELSE autoTimers

\* startAuthRetry and startPingKeepalive: cleanup, then a new state object
\* with its interval and its timeout armed, stored under the key.
StartAuto(deviceId, authToken, state) ==
  /\ autoCreated < MaxAuto
  /\ autoCreated' = autoCreated + 1
  /\ autoTimers' = CleanedTimers(getAutoRequestStateKey(deviceId, authToken)) \cup
       { [obj |-> autoCreated + 1, kind |-> k, due |-> now + AutoDelay(k),
          key |-> getAutoRequestStateKey(deviceId, authToken),
          deviceId |-> deviceId, authToken |-> authToken, state |-> state] :
         k \in {"interval", "timeout"} }
  /\ autoRequestStates' =
       MapSet(autoRequestStates, getAutoRequestStateKey(deviceId, authToken),
              [deviceId |-> deviceId, authToken |-> authToken, state |-> state,
               obj |-> autoCreated + 1, startTime |-> now])
  /\ UNCHANGED autoCalls

\* The timeout of a state object fires after 60 s: cleanupAutoRequests(stateKey).
AutoExpiry(t) ==
  /\ t \in autoTimers /\ t.kind = "timeout"
  /\ autoTimers' = CleanedTimers(t.key) \ {t}
  /\ autoRequestStates' = MapDelete(autoRequestStates, t.key)
  /\ sent' = {}
  /\ UNCHANGED <<relay, uplink, watchdog, now, devices, autoCreated, autoCalls, deviceCalls>>

\* The interval t of a state object runs (every 2 s): the request to the
\* device starts, with the variables of the interval's closure.
AutoAttempt(t) ==
  /\ t \in autoTimers /\ t.kind = "interval"
  /\ Len(autoCalls) < MaxAutoCalls
  /\ autoCalls' = Append(autoCalls, [timer |-> t, done |-> FALSE, started |-> now])
  /\ autoTimers' = (autoTimers \ {t}) \cup {[t EXCEPT !.due = now + AUTO_REQUEST_INTERVAL]}
  /\ sent' = {}
  /\ UNCHANGED <<relay, uplink, watchdog, now, devices, autoRequestStates,
                 autoCreated, deviceCalls>>

\* The interval t runs and its request is refused at once: the catch block
\* logs and nothing but the next run of the interval changes.
AutoAttemptRefused(t) ==
  /\ t \in autoTimers /\ t.kind = "interval"
  /\ autoTimers' = (autoTimers \ {t}) \cup {[t EXCEPT !.due = now + AUTO_REQUEST_INTERVAL]}
  /\ sent' = {}
  /\ UNCHANGED <<relay, uplink, watchdog, now, devices, autoRequestStates,
                 autoCreated, autoCalls, deviceCalls>>

\* The request i of an interval completes with the status (0: an error).
\* An auth retry that gets 200 clears the timers of its own state object
\* and calls startPingKeepalive; every other outcome changes nothing.
AutoAttemptResult(i, status) ==
  /\ i \in 1..Len(autoCalls) /\ ~autoCalls[i].done
  /\ autoCalls' = [autoCalls EXCEPT ![i].done = TRUE]
  /\ IF autoCalls[i].timer.state = "auth-retry" /\ status = 200
     THEN /\ autoCreated < MaxAuto
          /\ autoCreated' = autoCreated + 1
          /\ autoTimers' =
               { t \in CleanedTimers(autoCalls[i].timer.key) :
                   t.obj # autoCalls[i].timer.obj } \cup
               { [autoCalls[i].timer EXCEPT !.obj = autoCreated + 1, !.kind = k,
                                            !.due = now + AutoDelay(k),
                                            !.state = "ping-keepalive"] :
                 k \in {"interval", "timeout"} }
          /\ autoRequestStates' =
               MapSet(autoRequestStates, autoCalls[i].timer.key,
                      [deviceId |-> autoCalls[i].timer.deviceId,
                       authToken |-> autoCalls[i].timer.authToken,
                       state |-> "ping-keepalive", obj |-> autoCreated + 1,
                       startTime |-> now])
     ELSE UNCHANGED <<autoRequestStates, autoTimers, autoCreated>>
  /\ sent' = {}
  /\ UNCHANGED <<relay, uplink, watchdog, now, devices, deviceCalls>>

\* Variant: connect() creates a socket whatever the state of ws.
connect_Unguarded ==
  /\ \E c \in 1..MaxConn : readyState[c] = "none"
  /\ ws' = CHOOSE c \in 1..MaxConn :
             readyState[c] = "none" /\ \A d \in 1..(c - 1) : readyState[d] # "none"
  /\ readyState' = [readyState EXCEPT ![ws'] = "connecting"]

\* connect(): nothing while ws is connecting or open, else a new socket.
connect ==
  IF ws # 0 /\ readyState[ws] \in {"connecting", "open"}
  THEN UNCHANGED <<ws, readyState>>
  ELSE /\ \E c \in 1..MaxConn : readyState[c] = "none"
       /\ ws' = CHOOSE c \in 1..MaxConn :
                  readyState[c] = "none" /\ \A d \in 1..(c - 1) : readyState[d] # "none"
       /\ readyState' = [readyState EXCEPT ![ws'] = "connecting"]

\* ws.on('open') of socket c, which the variable ws refers to: the register
\* message, the reconnect timeout cleared, startWatchdog().
AgentOpen(c) ==
  /\ readyState[c] = "connecting" /\ ws = c
  /\ readyState' = [readyState EXCEPT ![c] = "open"]
  /\ isConnected' = TRUE
  /\ sent' = {AgentMsg(c, "register", Absent, Absent, 0, <<>>, Absent)}
  /\ reconnectTimer' = NoTime
  /\ watchdogTimer' = now + WatchdogPeriod
  /\ lastPingTime' = now
  /\ UNCHANGED <<relay, ws, forcedTimers, now, devices, auto, deviceCalls>>

\* Variant: a close handler that schedules no reconnect.
AgentClose_NoReconnect(c) ==
  /\ readyState[c] \in {"connecting", "open", "closing"}
  /\ readyState' = [readyState EXCEPT ![c] = "closed"]
  /\ isConnected' = FALSE
  /\ ws' = 0
  /\ watchdogTimer' = NoTime
  /\ lastPingTime' = NoTime
  /\ sent' = {}
  /\ UNCHANGED <<relay, reconnectTimer, forcedTimers, now, devices, auto, deviceCalls>>

\* Variant: a close handler that also drops the auto-request states.
AgentClose_DropsAuto(c) ==
  /\ readyState[c] \in {"connecting", "open", "closing"}
  /\ readyState' = [readyState EXCEPT ![c] = "closed"]
  /\ isConnected' = FALSE
  /\ ws' = 0
  /\ watchdogTimer' = NoTime
  /\ lastPingTime' = NoTime
  /\ reconnectTimer' = IF reconnectTimer = NoTime THEN now + ReconnectDelay ELSE reconnectTimer
  /\ autoRequestStates' = EmptyMap
  /\ autoTimers' = {}
  /\ sent' = {}
  /\ UNCHANGED <<relay, forcedTimers, now, devices, autoCreated, autoCalls, deviceCalls>>

\* ws.on('close') of socket c, open, still connecting or terminated:
\* stopWatchdog(), and a reconnect in 5 s unless reconnectTimer is set.
AgentClose(c) ==
  /\ readyState[c] \in {"connecting", "open", "closing"}
  /\ readyState' = [readyState EXCEPT ![c] = "closed"]
  /\ isConnected' = FALSE
  /\ ws' = 0
  /\ watchdogTimer' = NoTime
  /\ lastPingTime' = NoTime
  /\ reconnectTimer' = IF reconnectTimer = NoTime THEN now + ReconnectDelay ELSE reconnectTimer
  /\ sent' = {}
  /\ UNCHANGED <<relay, forcedTimers, now, devices, auto, deviceCalls>>

\* The reconnect timeout of the close handler fires.
ReconnectTimeout ==
  /\ reconnectTimer # NoTime
  /\ reconnectTimer' = NoTime
  /\ connect
  /\ sent' = {}
  /\ UNCHANGED <<relay, isConnected, forcedTimers, watchdog, now, devices, auto, deviceCalls>>

\* Date.now() - lastPingTime (null counts as 0)
timeSinceLastPing == now - (IF lastPingTime = NoTime THEN 0 ELSE lastPingTime)

\* Variant: the watchdog acts once PING_TIMEOUT is reached.
WatchdogCheck_AtThreshold ==
  /\ watchdogTimer # NoTime
  /\ IF timeSinceLastPing >= PING_TIMEOUT
     THEN /\ watchdogTimer' = NoTime
          /\ lastPingTime' = NoTime
          /\ readyState' = IF ws # 0 /\ readyState[ws] \in {"connecting", "open"}
                           THEN [readyState EXCEPT ![ws] = "closing"]
                           ELSE readyState
          /\ ws' = 0
          /\ isConnected' = FALSE
          /\ forcedTimers' = forcedTimers \cup {now + ForcedReconnectDelay}
          /\ UNCHANGED reconnectTimer
     ELSE /\ watchdogTimer' = now + WatchdogPeriod
          /\ UNCHANGED <<uplink, lastPingTime>>
  /\ sent' = {}
  /\ UNCHANGED <<relay, now, devices, auto, deviceCalls>>

\* The watchdog interval runs: beyond PING_TIMEOUT since the last
\* heartbeat it stops the watchdog, terminates the socket of ws (whose
\* 'close' event follows), sets ws to null and arms a reconnect in 1 s;
\* otherwise the interval runs again a period later.
WatchdogCheck ==
  /\ watchdogTimer # NoTime
  /\ IF timeSinceLastPing > PING_TIMEOUT
     THEN /\ watchdogTimer' = NoTime
          /\ lastPingTime' = NoTime
          /\ readyState' = IF ws # 0 /\ readyState[ws] \in {"connecting", "open"}
                           THEN [readyState EXCEPT ![ws] = "closing"]
                           ELSE readyState
          /\ ws' = 0
          /\ isConnected' = FALSE
          /\ forcedTimers' = forcedTimers \cup {now + ForcedReconnectDelay}
          /\ UNCHANGED reconnectTimer
     ELSE /\ watchdogTimer' = now + WatchdogPeriod
          /\ UNCHANGED <<uplink, lastPingTime>>
  /\ sent' = {}
  /\ UNCHANGED <<relay, now, devices, auto, deviceCalls>>

\* The reconnect timeout x of a watchdog breach fires.
ForcedReconnect(x) ==
  /\ x \in forcedTimers
  /\ forcedTimers' = forcedTimers \ {x}
  /\ connect
  /\ sent' = {}
  /\ UNCHANGED <<relay, isConnected, reconnectTimer, watchdog, now, devices, auto, deviceCalls>>

\* The times at which an armed timer is due.
Deadlines ==
  { t.due : t \in removalTimers } \cup forcedTimers
    \cup ({reconnectTimer, watchdogTimer} \ {NoTime})
    \cup { t.due : t \in autoTimers }
    \cup { autoCalls[i].started + AutoRequestTimeout :
             i \in { j \in 1..Len(autoCalls) : ~autoCalls[j].done } }

\* d seconds pass on the clock up to the reading limit; a timer fires when
\* it is due, so time does not pass beyond a deadline, and the 'close' event
\* of a terminated socket is emitted before time passes.
Advance(d, limit) ==
  /\ now + d <= limit
  /\ \A x \in Deadlines : now + d <= x
  /\ \A c \in 1..MaxConn : readyState[c] # "closing"
  /\ now' = now + d
  /\ sent' = {}
  /\ UNCHANGED <<relay, uplink, watchdog, devices, auto, deviceCalls>>

\* The removal timeout t fires when it is due.
RemovalDue(t) == t.due = now /\ RemovalTimeout(t)

\* The timers of the uplink fire when they are due.
ReconnectDue == reconnectTimer = now /\ ReconnectTimeout

WatchdogDue == watchdogTimer = now /\ WatchdogCheck

ForcedDue == \E x \in forcedTimers : x = now /\ ForcedReconnect(x)

\* The timers of a state object fire when they are due.
AutoAttemptDue(t) == t.due = now /\ AutoAttempt(t)

AutoRefusedDue(t) == t.due = now /\ AutoAttemptRefused(t)

AutoExpiryDue(t) == t.due = now /\ AutoExpiry(t)

\* A tick of the clock where timers fire at any time.
Tick ==
  /\ now < MaxNow
  /\ now' = now + 1
  /\ sent' = {}
  /\ UNCHANGED <<relay, uplink, watchdog, devices, auto, deviceCalls>>

\* d seconds pass while no timer callback runs (callbacks may run late).
Elapse(d, limit) ==
  /\ now + d <= limit
  /\ now' = now + d
  /\ sent' = {}
  /\ UNCHANGED <<relay, uplink, watchdog, devices, auto, deviceCalls>>

\* handleMessage, discover branch
HandleDiscover(m) ==
  /\ sent' = Send("discover-response", m.requestId, JsTrue, 0, getDiscoveredDevices, Absent)
  /\ UNCHANGED <<relay, uplink, watchdog, now, devices, auto, deviceCalls>>

\* handleMessage, api-request branch up to the await: the answer 'Missing
\* targetIp', or the start of makeDeviceRequest.
HandleApiRequest(c, m) ==
  IF m.targetIp = NoAddress
  THEN /\ sent' = Send("api-response", m.requestId, JsFalse, 0, <<>>, "Missing targetIp")
       /\ UNCHANGED <<relay, uplink, watchdog, now, devices, auto, deviceCalls>>
  ELSE /\ Len(deviceCalls) < MaxDeviceCalls
       /\ deviceCalls' = Append(deviceCalls,
            [requestId |-> m.requestId, sock |-> c, targetIp |-> m.targetIp,
             path |-> m.path, done |-> FALSE])
       /\ sent' = {}
       /\ UNCHANGED <<relay, uplink, watchdog, now, devices, auto>>

\* Variant: a ping is answered without a reset of the watchdog.
HandlePing_NoReset ==
  /\ sent' = Send("pong", Absent, Absent, 0, <<>>, Absent)
  /\ UNCHANGED <<relay, uplink, watchdog, now, devices, auto, deviceCalls>>

\* handleMessage, ping branch: the pong, then resetWatchdog(); a throwing
\* send skips the reset.
HandlePing ==
  /\ sent' = Send("pong", Absent, Absent, 0, <<>>, Absent)
  /\ lastPingTime' = IF SendThrows THEN lastPingTime ELSE now
  /\ UNCHANGED <<relay, uplink, watchdogTimer, now, devices, auto, deviceCalls>>

\* A handleMessage whose fall-through also ran resetWatchdog().
HandleOther_ResetsWatchdog ==
  /\ sent' = {}
  /\ lastPingTime' = now
  /\ UNCHANGED <<relay, uplink, watchdogTimer, now, devices, auto, deviceCalls>>

\* handleMessage for a type without a branch, and for data JSON.parse rejects
HandleOther ==
  /\ sent' = {}
  /\ UNCHANGED <<relay, uplink, watchdog, now, devices, auto, deviceCalls>>

\* ws.on('message') of the open socket c: handleMessage(data) up to its
\* first await.
handleMessage(c, m) ==
  /\ readyState[c] = "open"
  /\ IF m.type = "discover" THEN HandleDiscover(m)
     ELSE IF m.type = "api-request" THEN HandleApiRequest(c, m)
     ELSE IF m.type = "ping" THEN HandlePing
     ELSE HandleOther

\* handleMessage after the await of makeDeviceRequest for device call i: the
\* auto-request decision for an auth path, then the api-response.  With
\* the path missing, makeDeviceRequest fails before any request and
\* path.match throws: the catch logs and nothing is sent.
DeviceResult(i, result) ==
  /\ i \in 1..Len(deviceCalls) /\ ~deviceCalls[i].done
  /\ deviceCalls' = [deviceCalls EXCEPT ![i].done = TRUE]
  /\ IF deviceCalls[i].path = NoPath
     THEN /\ sent' = {}
          /\ UNCHANGED auto
     ELSE /\ IF /\ AuthToken(deviceCalls[i].path) # Absent
                /\ DeviceIdOf(deviceCalls[i].targetIp) # Null
                /\ (~Truthy(result.success) \/ result.statusCode >= 400)
             THEN StartAuto(DeviceIdOf(deviceCalls[i].targetIp),
                            AuthToken(deviceCalls[i].path), "auth-retry")
             ELSE IF /\ AuthToken(deviceCalls[i].path) # Absent
                     /\ DeviceIdOf(deviceCalls[i].targetIp) # Null
                     /\ result.statusCode = 200
             THEN StartAuto(DeviceIdOf(deviceCalls[i].targetIp),
                            AuthToken(deviceCalls[i].path), "ping-keepalive")
             ELSE UNCHANGED auto
          /\ sent' = Send("api-response", deviceCalls[i].requestId, result.success,
                          result.statusCode, <<>>,
                          IF Truthy(result.success) THEN Absent ELSE "device error")
  /\ UNCHANGED <<relay, uplink, watchdog, now, devices>>

\* Where every kind of message is an input, at most MainConn uplink sockets
\* are created over the run.
WithinMainConn == \E c \in 1..MainConn : readyState[c] = "none"

\* The agent: uplink lifecycle, inbound messages, device calls, the expiry of
\* auto-request states, and the presence events of one device.
NextAgent ==
  \/ \E c \in 1..MaxConn : AgentOpen(c)
  \/ \E c \in 1..MaxConn : AgentClose(c)
  \/ WithinMainConn /\ ReconnectTimeout
  \/ Tick
  \/ \E c \in 1..MaxConn,
        m \in InboundDiscover \cup InboundApi \cup InboundPing \cup InboundOther :
       handleMessage(c, m)
  \/ \E i \in 1..MaxDeviceCalls, result \in DeviceResults : DeviceResult(i, result)
  \/ \E service \in MainServices : Up(service)
  \/ \E service \in MainServices : Down(service)
  \/ \E t \in removalTimers : RemovalTimeout(t)
  \/ \E t \in autoTimers : AutoExpiry(t)

SpecAgent == Init /\ [][NextAgent]_vars

\* The Device Registry under every presence event, with discover requests
\* on the open uplink.
NextDevices ==
  \/ \E c \in 1..MaxConn : AgentOpen(c)
  \/ \E c \in 1..MaxConn, m \in InboundDiscover : handleMessage(c, m)
  \/ \E service \in Services : Up(service)
  \/ \E service \in Services : Down(service)
  \/ \E t \in removalTimers : RemovalTimeout(t)

SpecDevices == Init /\ [][NextDevices]_vars

\* The presence events of the services of one device on the clock: the
\* removal timeouts fire GracePeriod after they were armed.
GraceServices ==
  { Service("OnSong", <<Ipv4Address>>, r, "d1") : r \in {"server", "printer"} }

GraceSteps == {200, 600}

NextGrace ==
  \/ \E service \in GraceServices : Up(service)
  \/ \E service \in GraceServices : Down(service)
  \/ \E t \in removalTimers : RemovalDue(t)
  \/ \E d \in GraceSteps : Advance(d, MaxGraceClock)

SpecGrace == Init /\ [][NextGrace]_vars

\* The uplink on the clock: opens and closes of the transport, pings, the
\* watchdog interval and the reconnect timeouts, each when it is due.
WatchSteps == {1, 5}

NextWatch ==
  \/ \E c \in 1..MaxConn : AgentOpen(c)
  \/ \E c \in 1..MaxConn : AgentClose(c)
  \/ \E c \in 1..MaxConn, m \in InboundPing : handleMessage(c, m)
  \/ WatchdogDue
  \/ ForcedDue
  \/ ReconnectDue
  \/ \E d \in WatchSteps : Advance(d, MaxWatchClock)

SpecWatch == Init /\ [][NextWatch]_vars

\* The auto-request states: auth calls of the tenant on the stored device,
\* their outcomes, the requests of the intervals and the expiry timeouts.
AutoApi ==
  { Inbound("api-request", "req-2", Ipv4Address, pa) :
      pa \in {AuthPath, <<"api", "t2", "auth">>, SongsPath} }

AutoStatuses == {0, 200, 401}

\* Two devices that announce the same address.
AutoServices == { Service("OnSong", <<Ipv4Address>>, "server", d) : d \in {"d1", "d2"} }

NextAuto ==
  \/ \E c \in 1..MaxConn : AgentOpen(c)
  \/ \E service \in AutoServices : Up(service)
  \/ \E c \in 1..MaxConn, m \in AutoApi \cup InboundDiscover \cup InboundPing :
       handleMessage(c, m)
  \/ \E i \in 1..MaxDeviceCalls, result \in DeviceResults : DeviceResult(i, result)
  \/ \E t \in autoTimers : AutoAttempt(t)
  \/ \E i \in 1..MaxAutoCalls, status \in AutoStatuses : AutoAttemptResult(i, status)
  \/ \E t \in autoTimers : AutoExpiry(t)

SpecAuto == Init /\ [][NextAuto]_vars

\* The auto-request machine of one device on the clock: one auth
\* api-request, the runs of the intervals every 2 s, requests that are
\* refused at once or answered within their timeout, the expiry after 60 s.
AutoSteps == {2}

TimedApi == { Inbound("api-request", "req-2", Ipv4Address, AuthPath) }

TimedResults == { r \in DeviceResults : r.statusCode \in {0, 200} }

NextAutoTimed ==
  \/ now = 0 /\ AgentOpen(1)
  \/ now = 0 /\ Up(Service("OnSong", <<Ipv4Address>>, "server", "d1"))
  \/ \E m \in TimedApi : deviceCalls = <<>> /\ handleMessage(1, m)
  \/ \E i \in 1..MaxDeviceCalls, result \in TimedResults : DeviceResult(i, result)
  \/ \E t \in autoTimers : AutoAttemptDue(t)
  \/ \E t \in autoTimers : AutoRefusedDue(t)
  \/ \E i \in 1..MaxAutoCalls, status \in {0, 200} : AutoAttemptResult(i, status)
  \/ \E t \in autoTimers : AutoExpiryDue(t)
  \/ WatchdogDue
  \/ \E d \in AutoSteps : Advance(d, MaxAutoClock)

SpecAutoTimed == Init /\ [][NextAutoTimed]_vars

\* The uplink, the device registry and the auto-request machine side by
\* side, with timers that run at any time at or after a heartbeat silence
\* long enough for the watchdog.
FrameSteps == {71}

NextFrame ==
  \/ \E c \in 1..MaxConn : AgentOpen(c)
  \/ \E c \in 1..MaxConn : AgentClose(c)
  \/ WatchdogCheck
  \/ \E x \in forcedTimers : ForcedReconnect(x)
  \/ ReconnectTimeout
  \/ \E d \in FrameSteps : Elapse(d, MaxFrameClock)
  \/ \E service \in MainServices : Up(service)
  \/ \E service \in MainServices : Down(service)
  \/ \E t \in removalTimers : RemovalTimeout(t)
  \/ \E m \in TimedApi : deviceCalls = <<>> /\ handleMessage(1, m)
  \/ \E i \in 1..MaxDeviceCalls, result \in TimedResults : DeviceResult(i, result)
  \/ \E t \in autoTimers : AutoAttempt(t)
  \/ \E i \in 1..MaxAutoCalls, status \in {0, 200} : AutoAttemptResult(i, status)
  \/ \E t \in autoTimers : AutoExpiry(t)

SpecFrame == Init /\ [][NextFrame]_vars

\* The relay and one agent on one clock.  Uplink socket c of the agent is
\* the relay's socket c; a message is handled by its receiver at the
\* instant it is sent, and either end may see a connection close while
\* the other end still holds it open.

\* The register message of the agent's configuration.
AgentRegister ==
  Msg("register", Absent, Absent, 0, Absent, "a.church.tools", "s1", "u1", Absent, JsTrue,
      "2.0.0")

\* The register message the agent sent on socket c has not reached the relay.
PendingRegister(c) ==
  /\ c \in Sock /\ sockState[c] = "open" /\ registeredKey[c] = Null
  /\ \E r \in sent : r.type = "register" /\ r.sock = c

\* The ping the keep-alive interval sent on socket c at this instant has
\* not reached the agent, which holds c open.
FreshPing(c) ==
  /\ c \in Sock /\ <<c, "ping", Absent>> \in out
  /\ keepAliveDue = now + KeepAlivePeriod
  /\ ws = c /\ readyState[c] = "open" /\ lastPingTime # now

\* Nothing is in flight and the keep-alive interval is not due.
Quiet ==
  /\ now < keepAliveDue
  /\ \A c \in 1..MaxConn : ~PendingRegister(c) /\ ~FreshPing(c)

\* The keep-alive interval runs when it is due.
KeepAliveDue == keepAliveDue = now /\ KeepAlive

KeepSteps == {1, 5}

NextKeep ==
  \/ KeepAliveDue
  \/ \E c \in Sock : Quiet /\ readyState[c] = "connecting" /\ Connection(c)
  \/ \E c \in Sock : Quiet /\ sockState[c] = "open" /\ AgentOpen(c)
  \/ \E c \in Sock : PendingRegister(c) /\ OnMessage(c, AgentRegister)
  \/ \E c \in Sock, m \in InboundPing : FreshPing(c) /\ handleMessage(c, m)
  \/ \E c \in 1..MaxConn : Quiet /\ AgentClose(c)
  \/ \E s \in Sock : Quiet /\ OnClose(s)
  \/ Quiet /\ WatchdogDue
  \/ Quiet /\ ForcedDue
  \/ Quiet /\ ReconnectDue
  \/ \E d \in KeepSteps : Quiet /\ now + d <= keepAliveDue /\ Advance(d, MaxKeepClock)

SpecKeep == Init /\ [][NextKeep]_vars

\* The messages neither program has a branch for, and data that is not JSON.
DroppedMsgs == { m \in OtherMsgs : m.type \in {"hello", "<not json>"} }

\* The two programs side by side.  They share no state, so a run is a run of
\* the relay beside an agent at rest, or a run of the agent beside a relay
\* at rest.
NextBoth ==
  \/ AgentInit /\ \E s \in Sock : Connection(s)
  \/ AgentInit /\ \E s \in Sock, m \in ReuseRegisterMsgs \cup ReuseResponseMsgs \cup DroppedMsgs :
                     OnMessage(s, m)
  \/ AgentInit /\ \E s \in Sock : OnClose(s)
  \/ AgentInit /\ \E uuid \in TenantUuids \ {Absent} :
                     AgentConnected(uuid) /\ TenantCall("discover", GoodReferrer, "s1", uuid, "10.0.0.5")
  \/ AgentInit /\ \E n \in 1..MaxReq : Timeout(n)
  \/ RelayInit /\ NextAgent

SpecBoth == Init /\ [][NextBoth]_vars

\* ---------------------------------------------------------------- claims
AllSecrets == TenantSecrets \cup RegSecrets

\* C1: for every Session s of the registry and every presented secret x, the
\* absent and the empty one included, findAndAuthenticateConnection accepts
\* exactly when s is public or x equals s.secret; on a non-public Session
\* every other x is rejected with 403 'Invalid secret'.
C1_AuthenticateIffPublicOrSecret ==
  \A k \in DOMAIN connections : \A x \in AllSecrets :
    LET s == connections[k]
        r == findAndAuthenticateConnection(s.churchToolsUrl, x, s.uuid)
    IN /\ (r.status = 0) <=> (s.public = JsTrue \/ x = s.secret)
       /\ r.status = 0 => r.conn = s
       /\ r.status # 0 => r.status = 403 /\ r.error = "Invalid secret"

\* A call was just rejected for its secret while a non-public Session is registered.
C1_Witness ==
  /\ reply = HttpReply(403, "Invalid secret")
  /\ \E k \in DOMAIN connections : connections[k].public = JsFalse

\* The decision table of C2 as the claim states it.
C2_Table(ep, referrer, secret, uuid, targetIp) ==
  IF uuid \in {Absent, ""} THEN HttpReply(401, "Missing X-ID header")
  ELSE IF getChurchToolsUrl(referrer) \in {Null, ""}
       THEN HttpReply(400, "Invalid or missing referrer")
  ELSE IF (getChurchToolsUrl(referrer) \o ":" \o uuid) \notin DOMAIN connections
       THEN HttpReply(403, "No proxy connected")
  ELSE IF /\ connections[getChurchToolsUrl(referrer) \o ":" \o uuid].public # JsTrue
          /\ connections[getChurchToolsUrl(referrer) \o ":" \o uuid].secret # secret
       THEN HttpReply(403, "Invalid secret")
  ELSE NoReply

\* The table with the target-address check of ALL /api/* in its place.
C2_TableAmended(ep, referrer, secret, uuid, targetIp) ==
  IF uuid \in {Absent, ""} THEN HttpReply(401, "Missing X-ID header")
  ELSE IF ep = "api" /\ targetIp \in {Absent, ""}
       THEN HttpReply(400, "Missing ONSONGIP header")
  ELSE C2_Table(ep, referrer, secret, uuid, targetIp)

\* C2 as claimed: a discover or api call is decided in the order instance id
\* (401), hostname (400), Session lookup (403 not connected), secret (403
\* invalid secret), and otherwise proceeds to the Request Correlator.
C2_Original ==
  [][\A ep \in Endpoints, referrer \in Referrers, secret \in TenantSecrets,
        uuid \in TenantUuids, targetIp \in TenantIps :
       TenantCall(ep, referrer, secret, uuid, targetIp)
         => reply' = C2_Table(ep, referrer, secret, uuid, targetIp)]_vars

\* C2 amended: the same order, except that an api call whose target address
\* header is absent is answered 400 right after the instance-id check; a call
\* proceeds to the Request Correlator exactly when no check fails.
C2_DecisionOrder ==
  \A ep \in Endpoints, referrer \in Referrers, secret \in AllSecrets,
     uuid \in TenantUuids, targetIp \in TenantIps :
    /\ HttpReply(LocalCheck(ep, referrer, secret, uuid, targetIp).status,
                 LocalCheck(ep, referrer, secret, uuid, targetIp).error)
         = C2_TableAmended(ep, referrer, secret, uuid, targetIp)
    /\ C2_TableAmended(ep, referrer, secret, uuid, targetIp) = NoReply
         => LocalCheck(ep, referrer, secret, uuid, targetIp).conn
              = connections[getChurchToolsUrl(referrer) \o ":" \o uuid]

\* A call was answered 'not connected' after an earlier call went through
\* to the correlator.
C2_Witness ==
  /\ reply = HttpReply(403, "No proxy connected")
  /\ Len(calls) > 0

\* C3: a handler that replies 400, 401 or 403 at once sends no message,
\* creates no pending entry, and leaves the request id counter, the registry
\* and the sockets as they were.
C3_LocalRejectChangesNothing ==
  [][reply'.status \in {400, 401, 403}
       => /\ out' = {}
          /\ UNCHANGED <<connections, calls, requestIdCounter, created, sockState,
                         registeredKey>>]_vars

\* A call is rejected locally while a request is pending on a registered Session.
C3_Witness ==
  /\ reply.status \in {400, 401, 403}
  /\ \E k \in DOMAIN connections : RequestHandlers(connections[k].sid) # {}

\* C4: the presence check reports registered only when a Session exists at the
\* key and the presented secret equals its secret, public Sessions included;
\* whenever it reports registered, findAndAuthenticateConnection accepts
\* the same credentials.
C4_PresenceCheckStricter ==
  \A referrer \in Referrers, secret \in AllSecrets, uuid \in TenantUuids :
    proxycheck(referrer, secret, uuid) = HttpReply(200, "registered: true")
      => /\ Truthy(uuid) /\ Truthy(getChurchToolsUrl(referrer))
            /\ (getChurchToolsUrl(referrer) \o ":" \o uuid) \in DOMAIN connections
            /\ connections[getChurchToolsUrl(referrer) \o ":" \o uuid].secret = secret
            /\ findAndAuthenticateConnection(getChurchToolsUrl(referrer), secret, uuid).status = 0
            /\ LocalCheck("discover", referrer, secret, uuid, Absent).status = 0

\* The presence check has just reported registered for a public Session.
C4_Witness ==
  /\ reply = HttpReply(200, "registered: true")
  /\ \E k \in DOMAIN connections : connections[k].public = JsTrue

\* The step is the registration of key k: a new Session object is stored under k.
C5_Registers(k) ==
  /\ created' = created + 1
  /\ k \in DOMAIN connections'
  /\ connections'[k].sid = created'

\* The step is the close of a socket whose registeredKey is k, which removes k.
C5_Removes(k) ==
  /\ k \notin DOMAIN connections'
  /\ \E s \in Sock : /\ sockState[s] # "closed" /\ sockState'[s] = "closed"
                     /\ registeredKey[s] = k

\* C5: a lookup of a registered key returns the Session stored under it, and the
\* Session stored under a key k stays the one its registration installed: it
\* changes or disappears only by a registration for k or by a removal of k on
\* the close of a socket.
C5_FindReturnsInstalledSession ==
  /\ [](\A k \in DOMAIN connections :
          /\ k = connections[k].churchToolsUrl \o ":" \o connections[k].uuid
          /\ findAndAuthenticateConnection(connections[k].churchToolsUrl,
                                           connections[k].secret,
                                           connections[k].uuid).conn = connections[k])
  /\ [][\A k \in DOMAIN connections :
          (k \notin DOMAIN connections' \/ connections'[k] # connections[k])
            => C5_Registers(k) \/ C5_Removes(k)]_vars
  /\ [][\A k \in DOMAIN connections' :
          C5_Registers(k) => /\ registeredKey'[connections'[k].ws] = k
                             /\ sockState[connections'[k].ws] \in {"open", "closing"}]_vars

\* The Session installed first is still found after a second registration and
\* a call that was routed to it.
C5_Witness ==
  /\ created = 2
  /\ \E k \in DOMAIN connections : connections[k].sid = 1
  /\ \E n \in 1..Len(calls) : calls[n].conn = 1

\* The record a valid register message m arriving on socket s must install.
C6_Installed(m, s) ==
  [churchToolsUrl |-> m.churchToolsUrl, secret |-> m.secret, uuid |-> m.uuid,
   location |-> "", public |-> m.public, ws |-> s, proxyVersion |-> "2.0.0",
   sid |-> created + 1]

\* C6: no two Sessions of the registry have the same identity and each is
\* stored under the key of its identity; a registration stores under its key
\* a Session made of the message and the socket alone (secret, public flag,
\* socket) with an empty pending table, whatever was stored there before;
\* and every tenant request is written to the socket of the Session stored
\* under the called key at that moment, never to a socket the registry no
\* longer holds.
C6_OneSessionPerKeyReplaced ==
  /\ [](\A k1, k2 \in DOMAIN connections :
          /\ k1 = connections[k1].churchToolsUrl \o ":" \o connections[k1].uuid
          /\ k1 # k2 => connections[k1].sid # connections[k2].sid)
  /\ [][\A s \in Sock, m \in AuthRegisterMsgs :
          created' # created /\ ValidRegister(m) /\ OnMessage(s, m)
          => /\   /\ created' = created + 1
                  /\ DOMAIN connections'
                       = DOMAIN connections \cup {m.churchToolsUrl \o ":" \o m.uuid}
                  /\ \A k \in DOMAIN connections' :
                       connections'[k] = IF k = m.churchToolsUrl \o ":" \o m.uuid
                                         THEN C6_Installed(m, s)
                                         ELSE connections[k]
             /\ \A n \in 1..Len(calls') : calls'[n].conn # created']_vars
  /\ [][\A msg \in out' :
          msg[2] \in {"discover", "api-request"}
            => /\ Len(calls') = Len(calls) + 1
               /\ msg[3] = calls'[Len(calls')].id
               /\ \E k \in DOMAIN connections :
                    /\ connections[k].ws = msg[1]
                    /\ connections[k].sid = calls'[Len(calls')].conn]_vars

\* Socket 2 has replaced the Session of socket 1, which is still open, with
\* another secret, and a tenant request has been sent on the new Session.
C6_Witness ==
  /\ sockState[1] = "open"
  /\ \E k \in DOMAIN connections :
       /\ registeredKey[1] = k
       /\ connections[k].ws = 2 /\ connections[k].sid = 2 /\ connections[k].secret = "s1"
  /\ \E n \in 1..Len(calls) : calls[n].conn = 2
  /\ \E msg \in out : msg[1] = 2 /\ msg[2] = "discover"

\* C7 as claimed: once the close of a socket has been handled, the registry
\* holds no Session whose socket handle is that socket.
C7_Original ==
  \A s \in Sock : sockState[s] = "closed"
    => \A k \in DOMAIN connections : connections[k].ws # s

\* C8 as claimed: a data-path call with valid credentials for a key whose
\* agent socket has closed, with no registration for the key since, is
\* answered 403 'No proxy connected'.
C8_Original ==
  [][\A ep \in Endpoints, uuid \in TenantUuids \ {Absent} :
       (/\ TenantCall(ep, GoodReferrer, "s1", uuid, "10.0.0.5")
        /\ \/ ("a.church.tools" \o ":" \o uuid) \notin DOMAIN connections
           \/ sockState[connections["a.church.tools" \o ":" \o uuid].ws] = "closed")
         => reply' = HttpReply(403, "No proxy connected")]_vars

\* C9: a fulfilled call holds the response that carries its own request id, and
\* the tenant's reply is made from that response; the arrival of a response
\* settles the call of that id and changes no other call, in whatever order
\* the responses arrive.
C9_DemultiplexById ==
  /\ [](\A n \in 1..Len(calls) :
          calls[n].state = "fulfilled"
            => /\ calls[n].value.requestId = "req-" \o ToString(n)
               /\ calls[n].id = "req-" \o ToString(n)
               /\ calls[n].value \in ResponseMsgs
               /\ calls[n].status = Reply(calls[n].ep, calls[n].value).status
               /\ calls[n].body = Reply(calls[n].ep, calls[n].value).body)
  /\ [][\A n \in 1..Len(calls) :
          calls[n].state = "pending" /\ calls'[n].state = "fulfilled"
            => \A j \in 1..Len(calls) : j # n => calls'[j] = calls[j]]_vars

\* Two requests on one Session: the second is resolved while the first is
\* still pending.
C9_Witness ==
  /\ Len(calls) = 2
  /\ calls[1].conn = calls[2].conn
  /\ calls[1].state = "pending"
  /\ calls[2].state = "fulfilled"

\* A call is settled at most once and a settled call has no entry and no timer.
C10_SettledOnce ==
  \A n \in 1..Len(calls) :
    /\ calls[n].nResolve + calls[n].nReject <= 1
    /\ calls[n].state = "pending" <=> calls[n].nResolve + calls[n].nReject = 0
    /\ calls[n].state = "fulfilled" <=> calls[n].nResolve = 1
    /\ calls[n].state = "rejected" <=> calls[n].nReject = 1
    /\ calls[n].state = "pending" => calls[n].entry /\ calls[n].timer
    /\ calls[n].state # "pending" => ~calls[n].entry /\ ~calls[n].timer

\* C10: every request sent through the correlator is eventually fulfilled by
\* a response or rejected by its timeout; resolve and reject are called at
\* most once in total for it, and once it is settled its pending entry is gone
\* and its timer is not armed.
C10_SettledExactlyOnce ==
  /\ []C10_SettledOnce
  /\ \A n \in 1..MaxReq :
       (Len(calls) >= n) ~> (Len(calls) >= n /\ calls[n].state # "pending")

\* One request was fulfilled by a response and another rejected by its timeout.
C10_Witness ==
  \E n, j \in 1..Len(calls) : calls[n].state = "fulfilled" /\ calls[j].state = "rejected"

\* C11: when the timer of a pending request fires, the request is rejected with
\* the timeout error (the tenant gets 504) and its entry is removed; a response
\* carrying the id of a request that has timed out changes nothing: no call,
\* no pending table, not the registry, and nothing is sent.
C11_TimeoutThenLateResponseDropped ==
  /\ [][\A n \in 1..MaxReq :
          Timeout(n) /\ calls[n].state = "pending"
            => /\ calls'[n].state = "rejected"
               /\ calls'[n].status = 504 /\ calls'[n].body = "Request timeout"
               /\ ~calls'[n].entry /\ ~calls'[n].timer
               /\ calls'[n].nResolve = 0 /\ calls'[n].nReject = 1]_vars
  /\ [][\/ /\ out' = {}
             /\ UNCHANGED <<calls, connections, registeredKey, sockState,
                            requestIdCounter, created>>
          \/ \A s \in Sock, m \in ResponseMsgs :
               (\E n \in 1..Len(calls) :
                    calls[n].id = m.requestId /\ calls[n].state = "rejected")
                 => ~OnMessage(s, m)]_vars

\* A request has timed out while the socket of its Session is still open and
\* registered, so that the agent's late response can still arrive.
C11_Witness ==
  \E n \in 1..Len(calls) :
    /\ calls[n].state = "rejected" /\ ~calls[n].entry
    /\ sockState[calls[n].ws] = "open"
    /\ Truthy(registeredKey[calls[n].ws])
    /\ registeredKey[calls[n].ws] \in DOMAIN connections
    /\ connections[registeredKey[calls[n].ws]].sid = calls[n].conn

\* C12: the request ids of all sendToProxy calls ever made, on whatever
\* Session, are pairwise distinct; in particular the id of a new request is
\* not the id of any request still pending.
C12_RequestIdsDistinct ==
  /\ \A i, j \in 1..Len(calls) : i # j => calls[i].id # calls[j].id
  /\ \A i \in 1..Len(calls) : calls[i].id = "req-" \o ToString(i)

\* Two requests are pending at once on two different Sessions.
C12_Witness ==
  /\ Len(calls) = 2
  /\ calls[1].conn # calls[2].conn
  /\ calls[1].state = "pending" /\ calls[2].state = "pending"

\* C13 as claimed: a response message received on socket s resolves only a
\* request that was sent on s as part of the Session s registered; a socket
\* that has not registered resolves nothing.
C13_Original ==
  [][\A s \in Sock, m \in ResponseMsgs :
       calls' # calls /\ OnMessage(s, m)
         => \A n \in 1..Len(calls) :
              calls'[n] # calls[n]
                => /\ calls[n].ws = s
                   /\ Truthy(registeredKey[s])]_vars

\* C14 as claimed: the close of a socket settles no request, and a request
\* that is pending on a Session when the socket of that Session closes (every
\* request here was sent while its socket was open) changes only by
\* being rejected when its own timer fires, the tenant getting 504.
C14_Original ==
  /\ [][\A s \in Sock : OnClose(s) => calls' = calls]_vars
  /\ [][\A n \in 1..Len(calls) :
          (/\ calls[n].state = "pending"
           /\ sockState[calls[n].ws] = "closed"
           /\ calls'[n] # calls[n])
            => /\ calls'[n].state = "rejected" /\ calls'[n].status = 504
               /\ Timeout(n)]_vars

\* The Session object sid is no longer in the registry.
C15_Unregistered(sid) == \A k \in DOMAIN connections : connections[k].sid # sid

\* C15: a registration, and in particular one for a key that already has a
\* Session, changes no call; a request pending on a Session that has left
\* the registry changes only by the firing of its own timer, which rejects
\* it, and it does end that way.
C15_ReplacementLeavesPendingToTimeout ==
  /\ [][created' # created => calls' = calls]_vars
  /\ [][\A n \in 1..Len(calls) :
          (/\ calls[n].state = "pending"
           /\ C15_Unregistered(calls[n].conn)
           /\ calls'[n] # calls[n])
            => /\ Timeout(n)
               /\ calls'[n].state = "rejected" /\ calls'[n].status = 504]_vars
  /\ \A n \in 1..MaxReq :
       (Len(calls) >= n /\ calls[n].state = "pending" /\ C15_Unregistered(calls[n].conn))
         ~> (Len(calls) >= n /\ calls[n].state = "rejected")

\* A request sent on a Session that was then replaced under its key by a newer
\* Session, its own socket still open, has been rejected by its timer.
C15_Witness ==
  \E n \in 1..Len(calls) :
    /\ calls[n].state = "rejected"
    /\ sockState[calls[n].ws] = "open"
    /\ C15_Unregistered(calls[n].conn)
    /\ \E k \in DOMAIN connections :
         /\ connections[k].sid > calls[n].conn
         /\ registeredKey[calls[n].ws] = k
         /\ connections[k].ws # calls[n].ws

\* C16 as claimed: a settled call has status 504 exactly when it timed out and
\* 502 exactly when the agent answered success=false, on /discover and
\* /api/* alike, and otherwise the response's status code (default 200) and
\* data.
C16_Original ==
  \A n \in 1..Len(calls) :
    calls[n].state # "pending"
      => /\ calls[n].status = 504 <=> calls[n].state = "rejected"
         /\ calls[n].status = 502
              <=> (calls[n].state = "fulfilled" /\ ~Truthy(calls[n].value.success))
         /\ (calls[n].state = "fulfilled" /\ Truthy(calls[n].value.success))
              => /\ calls[n].status = IF calls[n].value.statusCode # 0
                                      THEN calls[n].value.statusCode ELSE 200
                 /\ calls[n].body = calls[n].value.data

\* C16: the tenant status of a call that passed the local checks is 504 when
\* the request timed out; when the agent answered success=false it is 502 on
\* /api/* and 500 on /discover; when the agent answered success=true it is
\* the response's status code (default 200) on /api/* and 200 on /discover,
\* with the forwarded data.  A timeout and an agent failure never have the
\* same status.
C16_StatusByOutcome ==
  \A n \in 1..Len(calls) :
    /\ calls[n].state = "pending" => calls[n].status = 0
    /\ calls[n].state = "rejected" => calls[n].status = 504
    /\ (calls[n].state = "fulfilled" /\ ~Truthy(calls[n].value.success))
         => /\ calls[n].status = IF calls[n].ep = "api" THEN 502 ELSE 500
            /\ calls[n].status # 504
    /\ (calls[n].state = "fulfilled" /\ Truthy(calls[n].value.success))
         => /\ calls[n].status = IF calls[n].ep = "api" /\ calls[n].value.statusCode # 0
                                 THEN calls[n].value.statusCode ELSE 200
            /\ calls[n].body = calls[n].value.data

\* A /discover call was answered with the agent's failure and an /api/* call
\* has timed out.
C16_Witness ==
  \E n, j \in 1..Len(calls) :
    /\ calls[n].ep = "discover" /\ calls[n].state = "fulfilled"
    /\ ~Truthy(calls[n].value.success) /\ calls[n].status = 500
    /\ calls[j].ep = "api" /\ calls[j].state = "rejected" /\ calls[j].status = 504

\* C17: a register message that lacks churchToolsUrl, secret or uuid installs
\* no Session and changes no Session, pending table or registeredKey; the
\* relay calls close on the socket and, the socket being open, sends it an
\* error message.  A register message with all three installs the Session
\* under its key on that socket, leaves the socket as it is and, the socket
\* being open, sends it 'registered'.
C17_RegisterValidated ==
  [][\A s \in Sock, m \in AuthRegisterMsgs :
       (reply' = NoReply /\ OnMessage(s, m))
         => IF m.churchToolsUrl = Absent \/ m.secret = Absent \/ m.uuid = Absent
            THEN /\ connections' = connections /\ created' = created
                 /\ registeredKey' = registeredKey /\ calls' = calls
                 /\ sockState' = [sockState EXCEPT ![s] = "closing"]
                 /\ out' = IF sockState[s] = "open" THEN {<<s, "error", Absent>>} ELSE {}
            ELSE /\ (m.churchToolsUrl \o ":" \o m.uuid) \in DOMAIN connections'
                 /\ connections'[m.churchToolsUrl \o ":" \o m.uuid].ws = s
                 /\ connections'[m.churchToolsUrl \o ":" \o m.uuid].secret = m.secret
                 /\ connections'[m.churchToolsUrl \o ":" \o m.uuid].sid = created + 1
                 /\ registeredKey'[s] = m.churchToolsUrl \o ":" \o m.uuid
                 /\ sockState' = sockState /\ calls' = calls
                 /\ out' = IF sockState[s] = "open" THEN {<<s, "registered", Absent>>}
                           ELSE {}]_vars

\* A socket that had registered a Session has sent a register message without
\* a required field: the error was sent, the socket is closing, the Session
\* is still the one registered.
C17_Witness ==
  \E s \in Sock :
    /\ sockState[s] = "closing"
    /\ out = {<<s, "error", Absent>>}
    /\ Truthy(registeredKey[s])
    /\ registeredKey[s] \in DOMAIN connections
    /\ connections[registeredKey[s]].ws = s

\* The Sessions of the registry whose socket has not closed.
C19_LiveSessions ==
  { k \in DOMAIN connections : sockState[connections[k].ws] # "closed" }

\* C19 as claimed: the connection count that GET /health returns is the number
\* of live Sessions, those registered and with a socket that has not closed.
C19_Original ==
  [][Health => reply' = HttpReply(200, "connections: "
                                         \o ToString(Cardinality(C19_LiveSessions)))]_vars

\* C20: handling a discover request, the agent transmits exactly one message:
\* a discover-response on the uplink the request came from, with the
\* request's requestId, success true, and as devices the records of the
\* Device Registry at that moment, one per registered device id; the registry
\* never holds a device id twice.
C20_DiscoverAnswersWithRegistry ==
  /\ [](\A i, j \in 1..Len(deviceRegistry) :
          i # j => deviceRegistry[i].id # deviceRegistry[j].id)
  /\ [][\A c \in 1..MaxConn, m \in InboundDiscover :
          handleMessage(c, m)
            => /\ Cardinality(sent') = 1
               /\ \A r \in sent' :
                    /\ r.sock = c /\ r.type = "discover-response"
                    /\ r.requestId = m.requestId /\ r.success = JsTrue
                    /\ Len(r.devices) = Len(deviceRegistry)
                    /\ \A i \in 1..Len(deviceRegistry) :
                         /\ r.devices[i] = deviceRegistry[i].device
                         /\ r.devices[i].txt.deviceid = deviceRegistry[i].id]_vars

\* A discover-response listing two devices was sent for request req-1, one of
\* them updated since it was discovered, while a removal timer is armed.
C20_Witness ==
  /\ \E r \in sent : /\ r.type = "discover-response" /\ r.requestId = "req-1"
                     /\ Len(r.devices) = 2
                     /\ r.devices[1].addresses # r.devices[2].addresses
  /\ removalTimers # {}
\* C18: on the relay, a message of a type without a branch or one that is
\* not JSON leaves the socket in its state (an open one stays open) and the
\* registry, the registeredKey of every socket and the pending requests
\* unchanged, and nothing is sent; on the agent, such a message leaves the
\* uplink, the device registry and its removal timers, the watchdog and the
\* auto-request states unchanged, and nothing is sent.
C18_UnknownOrUnparsableDropped ==
  [][/\ \A s \in Sock, m \in DroppedMsgs :
          OnMessage(s, m)
            => /\ sockState' = sockState
               /\ UNCHANGED <<connections, registeredKey, created, requestIdCounter, calls>>
               /\ out' = {}
               /\ UNCHANGED agent
     /\ \A c \in 1..MaxConn, m \in InboundOther :
          handleMessage(c, m)
            => /\ readyState'[c] = "open"
               /\ UNCHANGED <<uplink, watchdog, devices, auto, deviceCalls>>
               /\ sent' = {}
               /\ UNCHANGED relay]_vars

\* The agent with an open uplink, a stored device with an armed removal
\* timer, a live auto-request state and a watchdog reading older than the
\* clock: the state a dropped message must leave as it is.
C18_Witness ==
  /\ ws \in 1..MaxConn /\ readyState[ws] = "open"
  /\ Len(deviceRegistry) > 0
  /\ removalTimers # {}
  /\ DOMAIN autoRequestStates # {}
  /\ lastPingTime # NoTime /\ lastPingTime # now
  /\ sent = {}

\* C21: the api-response of a device call is sent on the uplink socket the
\* api-request arrived on, with the request id of that api-request, and on
\* no other socket.
C21_Original ==
  [][\A i \in 1..MaxDeviceCalls, result \in DeviceResults :
       DeviceResult(i, result)
         => \A r \in sent' : /\ r.sock = deviceCalls[i].sock
                              /\ r.requestId = deviceCalls[i].requestId]_vars

\* The services the 'up' filter lets through.
Recognized(service) ==
  service.txt.role \in {"server", "client"} /\ Truthy(service.txt.deviceid)

\* C26: an 'up' or a 'down' of a service without a recognized role or
\* without a device id changes neither the Device Registry nor a removal
\* timer, and every stored device has a recognized role and a device id.
C26_Original ==
  /\ [](\A i \in 1..Len(deviceRegistry) :
          /\ deviceRegistry[i].device.txt.role \in {"server", "client"}
          /\ Truthy(deviceRegistry[i].device.txt.deviceid))
  /\ [][\A service \in Services :
         (~Recognized(service) /\ (Up(service) \/ Down(service)))
           => UNCHANGED devices]_vars

\* C27: an 'up' that passes the filter cancels the removal timer stored for
\* its device; it leaves the registry as it is when the device is stored
\* and the incoming addresses have no IPv4-style entry, and otherwise
\* stores the incoming record under the device id, the other records and
\* the order of the registry kept.
C27_UpsertIfNewOrIpv4 ==
  [][\A service \in Services :
       (Recognized(service) /\ Up(service))
         => LET id == getDeviceId(service) IN
            /\ id \notin DOMAIN deviceRemovalTimers'
            /\ id \in DOMAIN deviceRemovalTimers
                 => \A t \in removalTimers' : t.timer # deviceRemovalTimers[id]
            /\ IF RegHas(deviceRegistry, id) /\ ~HasIpv4(service.addresses)
               THEN deviceRegistry' = deviceRegistry
               ELSE /\ RegHas(deviceRegistry', id)
                    /\ RegGet(deviceRegistry', id) = Device(service)
                    /\ Len(deviceRegistry') =
                         Len(deviceRegistry) + (IF RegHas(deviceRegistry, id) THEN 0 ELSE 1)
                    /\ \A i \in 1..Len(deviceRegistry) :
                         /\ deviceRegistry'[i].id = deviceRegistry[i].id
                         /\ deviceRegistry[i].id # id
                              => deviceRegistry'[i] = deviceRegistry[i]]_vars

\* A device stored on its first 'up' without an IPv4-style address, beside
\* one stored with such an address, after a removal timer was cancelled.
C27_Witness ==
  /\ RegHas(deviceRegistry, "d1") /\ ~HasIpv4(RegGet(deviceRegistry, "d1").addresses)
  /\ RegHas(deviceRegistry, "d2") /\ HasIpv4(RegGet(deviceRegistry, "d2").addresses)
  /\ timersCreated > 0 /\ removalTimers = {}

\* The ids of the stored devices.
RegIds(reg) == { reg[i].id : i \in 1..Len(reg) }

\* C22: after an 'up' of a device no removal timer for the device is armed,
\* and a stored device whose most recent presence event is an 'up' is not
\* deleted.  For a stored device, deviceRemovalTimers has an entry exactly
\* when its most recent presence event is a 'down': 'down' sets the entry,
\* 'up' deletes it.
C22_Original ==
  /\ [][\A service \in GraceServices :
         (Recognized(service) /\ Up(service))
           => \A t \in removalTimers' : t.deviceId # getDeviceId(service)]_vars
  /\ [][\A id \in RegIds(deviceRegistry) \ RegIds(deviceRegistry') :
         id \in DOMAIN deviceRemovalTimers]_vars

\* C23: a stored device is deleted only at the moment the grace period of
\* its most recent 'down' elapses: the timeout that 'down' stored for the
\* device is armed and due.
C23_Original ==
  [][\A id \in RegIds(deviceRegistry) \ RegIds(deviceRegistry') :
       /\ id \in DOMAIN deviceRemovalTimers
       /\ \E t \in removalTimers :
            t.timer = deviceRemovalTimers[id] /\ t.due = now]_vars

\* C28: the heartbeat is set when the connection opens; the armed watchdog
\* runs within 10 s; a run of the watchdog at most 70 s after the last
\* heartbeat changes nothing but the time of its next run, and a run later
\* than that happens at most 80 s after the heartbeat and leaves the
\* watchdog stopped, the open socket of ws terminated, ws null, and one
\* reconnect due 1 s later.
C28_WatchdogWindowAndBreach ==
  /\ [](watchdogTimer # NoTime
          => /\ watchdogTimer - now \in 0..10
             /\ lastPingTime # NoTime /\ lastPingTime <= now)
  /\ [][\A c \in 1..MaxConn : AgentOpen(c) => lastPingTime' = now /\ watchdogTimer' = now + 10]_vars
  /\ [][WatchdogDue
         => IF now - lastPingTime <= 70
            THEN /\ UNCHANGED <<uplink, lastPingTime>>
                 /\ watchdogTimer' = now + 10
            ELSE /\ now - lastPingTime <= 80
                 /\ watchdogTimer' = NoTime /\ lastPingTime' = NoTime
                 /\ ws # 0 /\ readyState[ws] = "open"
                 /\ readyState' = [readyState EXCEPT ![ws] = "closing"]
                 /\ ws' = 0 /\ isConnected' = FALSE
                 /\ forcedTimers' = {now + 1}
                 /\ UNCHANGED reconnectTimer]_vars

\* The first socket, silent since it opened at 0 s, was torn down at 80 s.
C28_Witness ==
  /\ now = 80 /\ forcedTimers = {81}
  /\ ws = 0 /\ readyState[1] = "closing"
  /\ watchdogTimer = NoTime /\ lastPingTime = NoTime

\* The uplink sockets created so far.
Created(rs) == { c \in 1..MaxConn : rs[c] # "none" }

\* C24: a ping received on the open uplink is answered with a pong and sets
\* the heartbeat to the clock; the watchdog tears the connection down only
\* later than 70 s after the last heartbeat, so never while pings are at
\* most 70 s apart; a teardown terminates the one open socket and arms one
\* reconnect, a terminated socket is never open again, and that reconnect
\* creates exactly one new socket, which becomes the socket of ws.
C24_PingResetsAndOneForcedCycle ==
  /\ [][\A c \in 1..MaxConn, m \in InboundPing :
         handleMessage(c, m)
           => /\ lastPingTime' = now
              /\ \E r \in sent' : r.type = "pong" /\ r.sock = c
              /\ UNCHANGED <<uplink, watchdogTimer>>]_vars
  /\ [][(WatchdogDue /\ readyState' # readyState)
         => /\ now - lastPingTime > 70
            /\ \E c \in 1..MaxConn :
                 /\ readyState[c] = "open"
                 /\ readyState' = [readyState EXCEPT ![c] = "closing"]
            /\ Cardinality(forcedTimers') = 1]_vars
  /\ [][\A c \in 1..MaxConn :
         readyState[c] = "closing" => readyState'[c] \in {"closing", "closed"}]_vars
  /\ [][ForcedDue
         => /\ ws = 0 /\ ws' # 0
            /\ Created(readyState') = Created(readyState) \cup {ws'}
            /\ readyState[ws'] = "none"
            /\ readyState' = [readyState EXCEPT ![ws'] = "connecting"]
            /\ forcedTimers' = {}]_vars

\* One second after the teardown at 80 s the second socket is connecting,
\* created by the watchdog's reconnect: the reconnect of the close handler
\* is not due before 85 s.
C24_Witness ==
  /\ now = 81 /\ reconnectTimer = 85 /\ forcedTimers = {}
  /\ readyState[1] = "closed" /\ readyState[2] = "connecting" /\ ws = 2

\* The reconnects that are scheduled: the timeout of the close handler and
\* the timeouts of the watchdog.
ScheduledReconnects ==
  Cardinality(forcedTimers) + (IF reconnectTimer # NoTime THEN 1 ELSE 0)

\* C29: a close of the uplink arms a reconnect 5 s later if no reconnect is
\* scheduled and none otherwise, and at most one reconnect is scheduled at
\* any time, the one of a watchdog teardown included.
C29_Original ==
  /\ [](ScheduledReconnects <= 1)
  /\ [][\A c \in 1..MaxConn :
         AgentClose(c)
           => IF ScheduledReconnects = 0
              THEN reconnectTimer' = now + 5 /\ forcedTimers' = {}
              ELSE UNCHANGED <<reconnectTimer, forcedTimers>>]_vars

\* The uplink sockets that are connecting or open.
Live(rs) == { c \in 1..MaxConn : rs[c] \in {"connecting", "open"} }

\* C30: a reconnect timeout that fires while the socket of ws is connecting
\* or open creates no socket and changes nothing but its own timer; at
\* most one uplink socket is connecting or open at any time, and it is the
\* socket of ws.
C30_ReconnectIdempotentOneLiveSocket ==
  /\ [](Cardinality(Live(readyState)) <= 1 /\ \A c \in Live(readyState) : ws = c)
  /\ [][((ReconnectDue \/ ForcedDue) /\ Live(readyState) # {})
         => UNCHANGED <<ws, readyState, isConnected, watchdog>>]_vars

\* Five seconds after the teardown at 80 s the reconnect of the close
\* handler has fired while the second socket was still connecting.
C30_Witness ==
  /\ now = 85 /\ reconnectTimer = NoTime /\ forcedTimers = {}
  /\ readyState = <<"closed", "connecting", "none">> /\ ws = 2

\* The armed timers of the kind k that were armed for the key.
TimersOf(key, k) == { t \in autoTimers : t.key = key /\ t.kind = k }

\* C25: every armed auto-request timer belongs to the state object stored
\* under its key, a stored state has exactly one interval and one timeout
\* armed, and a start of auth retry or ping keepalive leaves none of the
\* timers armed before for its key.
C25_OneTimerSetPerKey ==
  /\ [](/\ \A t \in autoTimers :
            /\ t.key \in DOMAIN autoRequestStates
            /\ autoRequestStates[t.key].obj = t.obj
            /\ autoRequestStates[t.key].state = t.state
         /\ \A key \in DOMAIN autoRequestStates :
            /\ key = getAutoRequestStateKey(autoRequestStates[key].deviceId,
                                            autoRequestStates[key].authToken)
            /\ Cardinality(TimersOf(key, "interval")) = 1
            /\ Cardinality(TimersOf(key, "timeout")) = 1)
  /\ [][autoCreated' # autoCreated
         => \A t \in autoTimers :
              t.key \in DOMAIN autoRequestStates' \ DOMAIN autoRequestStates
                \/ autoRequestStates'[t.key] = autoRequestStates[t.key]
                \/ t \notin autoTimers']_vars

\* The third state object of a key is stored with its two timers after
\* two earlier ones were replaced.
C25_Witness ==
  /\ autoCreated = 3
  /\ \E key \in DOMAIN autoRequestStates :
       /\ autoRequestStates[key].obj = 3
       /\ autoRequestStates[key].state = "ping-keepalive"
       /\ \A t \in autoTimers : t.obj = 3
       /\ Cardinality(autoTimers) = 2
  /\ \E i \in 1..Len(autoCalls) : autoCalls[i].done /\ autoCalls[i].timer.obj = 1

\* C37: the close of socket s leaves every Session whose socket handle is
\* another socket in the registry, under its key and unchanged.
C37_Original ==
  [][\A s \in Sock :
       OnClose(s)
         => \A k \in DOMAIN connections :
              connections[k].ws # s
                => k \in DOMAIN connections' /\ connections'[k] = connections[k]]_vars

\* C40: an api-request without targetIp is answered at once with one
\* api-response of its request id, success false and 'Missing targetIp', and
\* starts no device call; every other api-request starts one device call,
\* and when that call completes while the socket of the request is open and
\* is the socket of ws, one api-response of the request id is sent, with
\* the success and the status code of the call's result.
C40_Original ==
  /\ [][\A c \in 1..MaxConn, m \in InboundApi :
         handleMessage(c, m)
           => IF m.targetIp = NoAddress
              THEN /\ deviceCalls' = deviceCalls
                   /\ Cardinality(sent') = 1
                   /\ \A r \in sent' :
                        /\ r.type = "api-response" /\ r.requestId = m.requestId
                        /\ r.success = JsFalse /\ r.error = "Missing targetIp"
              ELSE /\ Len(deviceCalls') = Len(deviceCalls) + 1
                   /\ sent' = {}]_vars
  /\ [][\A i \in 1..MaxDeviceCalls, result \in DeviceResults :
         (/\ DeviceResult(i, result)
          /\ ws = deviceCalls[i].sock /\ readyState[ws] = "open")
           => /\ Cardinality(sent') = 1
              /\ \A r \in sent' :
                   /\ r.type = "api-response" /\ r.requestId = deviceCalls[i].requestId
                   /\ r.success = result.success
                   /\ Truthy(result.success) => r.statusCode = result.statusCode
                   /\ ~Truthy(result.success) => r.error # Absent]_vars

\* The registry entries that list the address.
Listing(targetIp) ==
  { j \in 1..Len(deviceRegistry) :
      \E a \in 1..Len(deviceRegistry[j].device.addresses) :
        deviceRegistry[j].device.addresses[a] = targetIp }

\* The path is /api/<token>/auth.
IsAuthAction(path) == Len(path) = 3 /\ path[1] = "api" /\ path[3] = "auth"

C39_AutoDrivenByRegisteredDevice ==
  [][\A i \in 1..MaxDeviceCalls, result \in DeviceResults :
       (DeviceResult(i, result) /\ IsAuthAction(deviceCalls[i].path))
         => LET hits == Listing(deviceCalls[i].targetIp)
                first == CHOOSE j \in hits : \A k \in hits : j <= k
                key == deviceRegistry[first].id \o ":" \o deviceCalls[i].path[2]
                failed == result.success = JsFalse \/ result.statusCode >= 400
            IN IF hits # {} /\ (failed \/ result.statusCode = 200)
               THEN /\ key \in DOMAIN autoRequestStates'
                    /\ autoRequestStates'[key].obj = autoCreated + 1
                    /\ autoRequestStates'[key].deviceId = deviceRegistry[first].id
                    /\ autoRequestStates'[key].state =
                         (IF failed THEN "auth-retry" ELSE "ping-keepalive")
                    /\ \A other \in DOMAIN autoRequestStates \ {key} :
                         /\ other \in DOMAIN autoRequestStates'
                         /\ autoRequestStates'[other] = autoRequestStates[other]
               ELSE UNCHANGED auto]_vars

\* With two devices on the address, states of both phases are stored under
\* keys of the first one, after a call answered with another status.
C39_Witness ==
  /\ Len(deviceRegistry) = 2
  /\ DOMAIN autoRequestStates # {}
  /\ \A key \in DOMAIN autoRequestStates :
       autoRequestStates[key].deviceId = deviceRegistry[1].id
  /\ \E key \in DOMAIN autoRequestStates : autoRequestStates[key].state = "auth-retry"
  /\ \E key \in DOMAIN autoRequestStates : autoRequestStates[key].state = "ping-keepalive"

\* The keys under which a state of the phase is stored.
InPhase(phase) ==
  { key \in DOMAIN autoRequestStates : autoRequestStates[key].state = phase }

\* C33: the interval of an auth-retry state runs 2 s after its last run;
\* an attempt answered 200 while its key is in auth retry stores a
\* ping-keepalive state for the key and leaves no auth-retry timer of the
\* key armed; no auth attempt starts for a key in ping keepalive; and the
\* completion of an attempt whose key is in ping keepalive changes neither
\* the states nor the timers.
C33_Original ==
  /\ [][\A t \in autoTimers :
         (AutoAttemptDue(t) /\ t.state = "auth-retry")
           => /\ t.key \in InPhase("auth-retry")
              /\ \E u \in autoTimers' :
                   /\ u.obj = t.obj /\ u.kind = "interval"
                   /\ u.due = now + AUTO_REQUEST_INTERVAL]_vars
  /\ [][\A i \in 1..MaxAutoCalls :
         (/\ AutoAttemptResult(i, 200)
          /\ autoCalls[i].timer.key \in InPhase("auth-retry"))
           => /\ autoCalls[i].timer.key \in InPhase("ping-keepalive")'
              /\ \A u \in autoTimers' :
                   u.key = autoCalls[i].timer.key => u.state = "ping-keepalive"]_vars
  /\ [][\A i \in 1..MaxAutoCalls, status \in {0, 200} :
         (/\ AutoAttemptResult(i, status)
          /\ autoCalls[i].timer.key \in InPhase("ping-keepalive"))
           => UNCHANGED <<autoRequestStates, autoTimers, autoCreated>>]_vars

\* C34: the timeout of an auth-retry state fires 60 s after the state was
\* stored, deletes the state and leaves no timer of the key armed; and a
\* key without a state gets one only when the device call of an
\* api-request completes.
C34_Original ==
  /\ [][\A t \in autoTimers :
         (AutoExpiryDue(t) /\ t.state = "auth-retry")
           => /\ now = autoRequestStates[t.key].startTime + AUTO_REQUEST_DURATION
              /\ t.key \notin DOMAIN autoRequestStates'
              /\ \A u \in autoTimers' : u.key # t.key]_vars
  /\ [][DOMAIN autoRequestStates' \ DOMAIN autoRequestStates # {}
         => \E i \in 1..Len(deviceCalls) : ~deviceCalls[i].done /\ deviceCalls'[i].done]_vars

\* C35: the interval of a ping-keepalive state runs 2 s after its last run
\* and the completion of its request changes neither states nor timers;
\* the timeout of the state is due 60 s after it was stored and deletes it;
\* and the ping-keepalive state of a key is replaced by a later one only
\* when the device call of an api-request completes.
C35_Original ==
  /\ [][\A t \in autoTimers :
         (AutoAttemptDue(t) /\ t.state = "ping-keepalive")
           => \E u \in autoTimers' :
                /\ u.obj = t.obj /\ u.kind = "interval"
                /\ u.due = now + AUTO_REQUEST_INTERVAL]_vars
  /\ [][\A i \in 1..MaxAutoCalls, status \in {0, 200} :
         (AutoAttemptResult(i, status) /\ autoCalls[i].timer.state = "ping-keepalive")
           => UNCHANGED <<autoRequestStates, autoTimers, autoCreated>>]_vars
  /\ [](\A key \in InPhase("ping-keepalive") :
          /\ now <= autoRequestStates[key].startTime + AUTO_REQUEST_DURATION
          /\ \A t \in TimersOf(key, "timeout") :
               t.due = autoRequestStates[key].startTime + AUTO_REQUEST_DURATION)
  /\ [][\A t \in autoTimers :
         (AutoExpiryDue(t) /\ t.state = "ping-keepalive")
           => /\ t.key \notin DOMAIN autoRequestStates'
              /\ \A u \in autoTimers' : u.key # t.key]_vars
  /\ [][\A key \in InPhase("ping-keepalive") \cap InPhase("ping-keepalive")' :
         autoRequestStates'[key].startTime # autoRequestStates[key].startTime
           => \E i \in 1..Len(deviceCalls) : ~deviceCalls[i].done /\ deviceCalls'[i].done]_vars

\* C31: whenever no uplink socket is connecting or open a reconnect is
\* scheduled, due within 5 s; a reconnect that fires while no socket is
\* connecting or open starts a connection attempt; and the open of a
\* connection sends the register message on it and starts the watchdog
\* with the heartbeat at the current time.
C31_RecoversFromSocketFailures ==
  /\ [](Live(readyState) = {} => ScheduledReconnects >= 1)
  /\ [](\A x \in forcedTimers \cup ({reconnectTimer} \ {NoTime}) :
          now <= x /\ x <= now + 5)
  /\ [][((ReconnectDue \/ ForcedDue) /\ Live(readyState) = {})
         => /\ Cardinality(Live(readyState')) = 1
            /\ ws' \in Live(readyState') /\ readyState'[ws'] = "connecting"
            /\ readyState[ws'] = "none"]_vars
  /\ [][\A c \in 1..MaxConn :
         (readyState[c] = "connecting" /\ readyState'[c] = "open")
           => /\ \E r \in sent' : r.type = "register" /\ r.sock = c
              /\ watchdogTimer' = now + 10
              /\ lastPingTime' = now]_vars

\* After a watchdog teardown and a failed connection attempt the third
\* socket is open, registered and watched.
C31_Witness ==
  /\ now >= 80
  /\ readyState = <<"closed", "closed", "open">>
  /\ \E r \in sent : r.type = "register" /\ r.sock = 3
  /\ watchdogTimer = now + 10

\* C38: an open, a close, a run of the watchdog and a reconnect of the
\* uplink leave the device registry, the removal timers and the
\* auto-request states with their timers unchanged; a device going up or
\* down, a removal timeout and the timers of the auto-request states leave
\* the uplink and the watchdog unchanged; and no step changes both sides.
C38_UplinkAndDevicesIndependent ==
  /\ [][(\/ \E c \in 1..MaxConn : AgentOpen(c) \/ AgentClose(c)
         \/ WatchdogCheck
         \/ \E x \in forcedTimers : ForcedReconnect(x)
         \/ ReconnectTimeout)
         => /\ deviceRegistry' = deviceRegistry
            /\ deviceRemovalTimers' = deviceRemovalTimers
            /\ removalTimers' = removalTimers
            /\ autoRequestStates' = autoRequestStates
            /\ autoTimers' = autoTimers]_vars
  /\ [][(\/ \E service \in MainServices : Up(service) \/ Down(service)
         \/ \E t \in removalTimers : RemovalTimeout(t)
         \/ \E t \in autoTimers : AutoAttempt(t) \/ AutoExpiry(t)
         \/ \E i \in 1..MaxAutoCalls, status \in {0, 200} : AutoAttemptResult(i, status))
         => /\ ws' = ws /\ readyState' = readyState /\ isConnected' = isConnected
            /\ reconnectTimer' = reconnectTimer /\ forcedTimers' = forcedTimers
            /\ lastPingTime' = lastPingTime /\ watchdogTimer' = watchdogTimer]_vars
  /\ [][<<uplink, watchdog>>' # <<uplink, watchdog>>
         => <<devices, auto>>' = <<devices, auto>>]_vars

\* A second socket is open after a watchdog teardown, whose reconnect is
\* still scheduled, while a device is stored, a removal timer is armed and an auto-request state is stored
\* with its timers.
C38_Witness ==
  /\ readyState[1] = "closed" /\ readyState[2] = "open" /\ now = 71
  /\ forcedTimers # {}
  /\ Len(deviceRegistry) = 1 /\ removalTimers # {}
  /\ DOMAIN autoRequestStates # {} /\ Cardinality(autoTimers) = 2

\* The relay's socket s is open and a Session of the registry holds it.
Serviced(s) ==
  /\ s \in Sock /\ sockState[s] = "open"
  /\ \E k \in DOMAIN connections : connections[k].ws = s

\* The watchdog terminates the socket of ws in this step.
Teardown == ws # 0 /\ readyState[ws] = "open" /\ readyState'[ws] = "closing"

\* C32: the keep-alive interval runs every 30 s and sends a ping on exactly
\* the open sockets held by a Session of the registry; the agent answers a
\* ping with a pong on the same socket and sets its heartbeat to the
\* current time; while the agent's open socket is held by a Session its
\* heartbeat is at most 30 s old and the watchdog does not terminate it;
\* an open socket of the agent is terminated once its heartbeat is more
\* than 70 s old at a watchdog run, at most 80 s after the heartbeat, with
\* a reconnect armed 1 s later that starts a connection attempt.
C32_KeepAliveFeedsWatchdog ==
  /\ [][keepAliveDue' # keepAliveDue
         => /\ keepAliveDue = now /\ keepAliveDue' = now + 30
            /\ out' = { <<s, "ping", Absent>> : s \in { t \in Sock : Serviced(t) } }]_vars
  /\ [][\A c \in 1..MaxConn :
         (readyState[c] = "open" /\ lastPingTime' # lastPingTime /\ readyState'[c] = "open")
           => /\ <<c, "ping", Absent>> \in out
              /\ lastPingTime' = now
              /\ \E r \in sent' : r.type = "pong" /\ r.sock = c]_vars
  /\ [](\A c \in 1..MaxConn :
          (ws = c /\ readyState[c] = "open")
            => /\ now - lastPingTime <= 80
               /\ Serviced(c) => now - lastPingTime <= 30)
  /\ [][Teardown
         => /\ ~Serviced(ws)
            /\ now - lastPingTime > 70
            /\ forcedTimers' = {now + 1}]_vars
  /\ [][(forcedTimers # {} /\ forcedTimers' = {} /\ Live(readyState) = {})
         => Cardinality(Live(readyState')) = 1]_vars

\* The watchdog has just terminated the agent's second socket, which the
\* relay holds open and registered while the registry is empty: the close
\* of the first socket reached the relay after the second had registered.
C32_Witness ==
  /\ readyState[2] = "closing" /\ forcedTimers = {now + 1}
  /\ sockState[2] = "open" /\ registeredKey[2] # Null
  /\ sockState[1] = "closed" /\ connections = EmptyMap
  /\ keepAliveDue > now /\ keepAliveDue >= 90

====
